---- MODULE Spec2Model ----
(***************************************************************************)
(* Procedural low-poly mesh kernel of Dbd_alike:                          *)
(*   tools/generate_item_models.py and tools/generate_medkit.py           *)
(* Primitive builders (create_box, create_cylinder, create_cone,          *)
(* create_half_cylinder, create_torus), merge_meshes and create_glb.      *)
(*                                                                         *)
(* Numbers.  The builders compute with floats.  Here every builder value  *)
(* is an exact element of Q(sqrt 3), written (a + b*sqrt3)/d, so that      *)
(* cos and sin of every multiple of pi/6 are exact; float rounding is not *)
(* modelled, a property "within tolerance" is read as exact.  Angles are  *)
(* counted in units of pi/6, hence segment counts divide 12.              *)
(* The serializer works on float32 bit patterns and on bytes.             *)
(***************************************************************************)
EXTENDS Integers, Sequences, FiniteSets, TLC

VARIABLES
    pc,             \* control position of the running script
    call,           \* the builder call under way: its name and arguments
    out,            \* what the builder call returned (or raised)
    meshes,         \* merge_meshes: the argument list
    k,              \* merge_meshes: number of loop iterations done
    all_positions,  \* merge_meshes: list of position arrays
    all_normals,    \* merge_meshes: list of normal arrays
    all_colors,     \* merge_meshes: list of color arrays
    all_indices,    \* merge_meshes: list of offset index arrays
    index_offset,   \* merge_meshes: running vertex offset
    merged,         \* merge_meshes: what the call returned (or raised)
    glb_args,       \* create_glb: the arrays and the output path passed in
    storage,        \* the files on disk, by path
    glb_result,     \* create_glb: what the call returned (or raised)
    runs            \* the generation runs (main of each script), by script

vars == <<pc, call, out, meshes, k, all_positions, all_normals, all_colors,
          all_indices, index_offset, merged, glb_args, storage, glb_result,
          runs>>

(***************************************************************************)
(* Bounds of the model.                                                    *)
(***************************************************************************)
MaxSegments == 6
MaxDim == 2
MaxMeshes == 3
MaxVerts == 2

(***************************************************************************)
(* Exact arithmetic in Q(sqrt 3): [a, b, d] is (a + b*sqrt3)/d, d > 0,     *)
(* in lowest terms.                                                        *)
(***************************************************************************)
Abs(n) == IF n < 0 THEN -n ELSE n

RECURSIVE GCD(_, _)
GCD(m, n) == IF n = 0 THEN m ELSE GCD(n, m % n)

Norm(a, b, d) ==
    LET g == GCD(GCD(Abs(a), Abs(b)), d)
    IN  [a |-> a \div g, b |-> b \div g, d |-> d \div g]

Rat(p, q) == IF q < 0 THEN Norm(-p, 0, -q) ELSE Norm(p, 0, q)
Num(n) == [a |-> n, b |-> 0, d |-> 1]
Zero == Num(0)
\* Python's None where a number may be passed: no number has d = 0
None == [a |-> 0, b |-> 0, d |-> 0]
One == Num(1)

Add(x, y) == Norm(x.a * y.d + y.a * x.d, x.b * y.d + y.b * x.d, x.d * y.d)
Neg(x) == [a |-> -x.a, b |-> -x.b, d |-> x.d]
Sub(x, y) == Add(x, Neg(y))
Mul(x, y) == Norm(x.a * y.a + 3 * x.b * y.b, x.a * y.b + x.b * y.a, x.d * y.d)

\* 1/y = d*(a - b*sqrt3) / (a^2 - 3*b^2); y is not zero
Inv(y) ==
    LET n == y.a * y.a - 3 * y.b * y.b
    IN  IF n > 0 THEN Norm(y.d * y.a, -(y.d * y.b), n)
                 ELSE Norm(-(y.d * y.a), y.d * y.b, -n)
Div(x, y) == Mul(x, Inv(y))

\* sign of a + b*sqrt3: -1, 0 or 1
Sign(x) ==
    IF x.a = 0 /\ x.b = 0 THEN 0
    ELSE IF x.a >= 0 /\ x.b >= 0 THEN 1
    ELSE IF x.a <= 0 /\ x.b <= 0 THEN -1
    ELSE IF x.a > 0 THEN (IF x.a * x.a > 3 * x.b * x.b THEN 1 ELSE -1)
    ELSE (IF 3 * x.b * x.b > x.a * x.a THEN 1 ELSE -1)

IsPos(x) == Sign(x) = 1

\* square root of a rational square (np.sqrt on the values the model draws)
ISqrt(n) == CHOOSE r \in 0..n : r * r = n
Sqrt(x) == Rat(ISqrt(x.a * x.d), x.d)

\* cos and sin of t*pi/6
Half == Rat(1, 2)
HalfSqrt3 == [a |-> 0, b |-> 1, d |-> 2]
CosTable == <<One, HalfSqrt3, Half, Zero, Neg(Half), Neg(HalfSqrt3),
              Neg(One), Neg(HalfSqrt3), Neg(Half), Zero, Half, HalfSqrt3>>
Cos(t) == CosTable[(t % 12) + 1]
Sin(t) == Cos(t - 3)

\* 3-vectors
Vec(x, y, z) == <<x, y, z>>
VSub(p, q) == <<Sub(p[1], q[1]), Sub(p[2], q[2]), Sub(p[3], q[3])>>
Dot(p, q) == Add(Add(Mul(p[1], q[1]), Mul(p[2], q[2])), Mul(p[3], q[3]))
Cross(p, q) ==
    <<Sub(Mul(p[2], q[3]), Mul(p[3], q[2])),
      Sub(Mul(p[3], q[1]), Mul(p[1], q[3])),
      Sub(Mul(p[1], q[2]), Mul(p[2], q[1]))>>

(***************************************************************************)
(* Primitive outputs.  A call returns (positions, normals, colors,         *)
(* indices) or raises.  Index values are 0-based as in the program; the    *)
(* arrays themselves are sequences, so vertex v is positions[v + 1].       *)
(***************************************************************************)
Returned(p, n, c, i) ==
    [status |-> "ok", error |-> "", positions |-> p, normals |-> n,
     colors |-> c, indices |-> i]
Raised(e) ==
    [status |-> "raise", error |-> e, positions |-> <<>>, normals |-> <<>>,
     colors |-> <<>>, indices |-> <<>>]
NoResult ==
    [status |-> "none", error |-> "", positions |-> <<>>, normals |-> <<>>,
     colors |-> <<>>, indices |-> <<>>]

RECURSIVE Flatten(_)
Flatten(ss) ==
    IF Len(ss) = 0 THEN <<>>
    ELSE IF Len(ss) = 1 THEN ss[1]
    ELSE LET h == Len(ss) \div 2
         IN  Flatten(SubSeq(ss, 1, h)) \o Flatten(SubSeq(ss, h + 1, Len(ss)))

\* [value] * n (and a list of n appended copies)
Repeat(x, n) == [i \in 1..n |-> x]

(***************************************************************************)
(* create_box                                                              *)
(***************************************************************************)
\* the corner signs of the 24 vertices, face by face (rows of `positions`)
BoxCorners ==
    << <<-1, -1,  1>>, << 1, -1,  1>>, << 1,  1,  1>>, <<-1,  1,  1>>,
       << 1, -1, -1>>, <<-1, -1, -1>>, <<-1,  1, -1>>, << 1,  1, -1>>,
       <<-1,  1,  1>>, << 1,  1,  1>>, << 1,  1, -1>>, <<-1,  1, -1>>,
       <<-1, -1, -1>>, << 1, -1, -1>>, << 1, -1,  1>>, <<-1, -1,  1>>,
       << 1, -1,  1>>, << 1, -1, -1>>, << 1,  1, -1>>, << 1,  1,  1>>,
       <<-1, -1, -1>>, <<-1, -1,  1>>, <<-1,  1,  1>>, <<-1,  1, -1>> >>

Offs_FullExtent(o, s, h) == IF s = 1 THEN Add(o, Add(h, h)) ELSE Sub(o, h)

\* o - h or o + h
Offs(o, s, h) == IF s = 1 THEN Add(o, h) ELSE Sub(o, h)

BoxPositions(w, h, d, origin) ==
    LET hw == Div(w, Num(2))
        hh == Div(h, Num(2))
        hd == Div(d, Num(2))
    IN  [v \in 1..24 |->
            Vec(Offs(origin[1], BoxCorners[v][1], hw),
                Offs(origin[2], BoxCorners[v][2], hh),
                Offs(origin[3], BoxCorners[v][3], hd))]

BoxFaceNormals ==
    << <<0, 0, 1>>, <<0, 0, -1>>, <<0, 1, 0>>, <<0, -1, 0>>,
       <<1, 0, 0>>, <<-1, 0, 0>> >>

BoxNormals ==
    [v \in 1..24 |->
        LET n == BoxFaceNormals[((v - 1) \div 4) + 1]
        IN  Vec(Num(n[1]), Num(n[2]), Num(n[3]))]

BoxIndices_Diagonal ==
    <<0, 1, 2, 0, 2, 3,
      4, 5, 6, 4, 6, 7,
      8, 9, 10, 8, 10, 11,
      12, 13, 14, 12, 14, 15,
      16, 17, 18, 16, 18, 19,
      20, 21, 22, 20, 23, 22>>

BoxIndices ==
    <<0, 1, 2, 0, 2, 3,
      4, 5, 6, 4, 6, 7,
      8, 9, 10, 8, 10, 11,
      12, 13, 14, 12, 14, 15,
      16, 17, 18, 16, 18, 19,
      20, 21, 22, 20, 22, 23>>

create_box(w, h, d, color, origin) ==
    Returned(BoxPositions(w, h, d, origin), BoxNormals, Repeat(color, 24),
             BoxIndices)

(***************************************************************************)
(* create_cylinder.  Angle 2*pi*i/segments is (12*i)/segments units.       *)
(***************************************************************************)
Angle(i, segments) == (12 * i) \div segments

\* the ring point [ox + r*cos, y, oz + r*sin]
RingPoint(origin, r, y, t) ==
    Vec(Add(origin[1], Mul(r, Cos(t))), y, Add(origin[3], Mul(r, Sin(t))))

UpY == Vec(Zero, One, Zero)
DownY == Vec(Zero, Neg(One), Zero)

\* first loop: bottom and top vertex of each step, interleaved
CylSidePositions(radius, height, segments, origin, top_radius) ==
    [v \in 1..(2 * segments) |->
        LET i == (v - 1) \div 2
            t == Angle(i, segments)
        IN  IF (v - 1) % 2 = 0
            THEN RingPoint(origin, radius, origin[2], t)
            ELSE RingPoint(origin, top_radius, Add(origin[2], height), t)]

CylSideNormals(segments) ==
    [v \in 1..(2 * segments) |->
        LET t == Angle((v - 1) \div 2, segments)
        IN  Vec(Cos(t), Zero, Sin(t))]

QuadStrip(i0, i1, i2, i3) == <<i0, i2, i1, i1, i2, i3>>

CylSideIndices(segments) ==
    Flatten([i \in 1..segments |->
        QuadStrip((i - 1) * 2, (i - 1) * 2 + 1,
                  (i % segments) * 2, (i % segments) * 2 + 1)])

\* a cap: its own center, then its own ring of `segments` vertices
CapPositions_NoCenter(origin, r, y, segments) ==
    [i \in 1..segments |-> RingPoint(origin, r, y, Angle(i - 1, segments))]

CapPositions(origin, r, y, segments) ==
    <<Vec(origin[1], y, origin[3])>> \o
    [i \in 1..segments |-> RingPoint(origin, r, y, Angle(i - 1, segments))]

TopCapIndices_OnSideRing(center, segments) ==
    Flatten([i \in 1..segments |->
        <<center, 2 * (i - 1) + 1, 2 * (i % segments) + 1>>])

TopCapIndices(center, segments) ==
    Flatten([i \in 1..segments |->
        <<center, center + 1 + (i - 1), center + 1 + (i % segments)>>])

BotCapIndices_TopWinding(center, segments) ==
    Flatten([i \in 1..segments |->
        <<center, center + 1 + (i - 1), center + 1 + (i % segments)>>])

BotCapIndices(center, segments) ==
    Flatten([i \in 1..segments |->
        <<center, center + 1 + (i % segments), center + 1 + (i - 1)>>])

create_cylinder(radius, height, segments, color, origin, top_radius_arg) ==
    LET top_radius == IF top_radius_arg = None THEN radius ELSE top_radius_arg
        side == CylSidePositions(radius, height, segments, origin, top_radius)
        top_center_idx == Len(side)
        top == CapPositions(origin, top_radius, Add(origin[2], height), segments)
        bot_center_idx == Len(side) + Len(top)
        bot == CapPositions(origin, radius, origin[2], segments)
        positions == side \o top \o bot
        normals == CylSideNormals(segments) \o Repeat(UpY, Len(top))
                    \o Repeat(DownY, Len(bot))
        indices == CylSideIndices(segments)
                    \o TopCapIndices(top_center_idx, segments)
                    \o BotCapIndices(bot_center_idx, segments)
    IN  Returned(positions, normals, Repeat(color, Len(positions)), indices)

(***************************************************************************)
(* create_cone                                                             *)
(***************************************************************************)
ConeNormalLen(slope) == Sqrt(Add(One, Mul(slope, slope)))

ConeApexNormal(normal_len) == Vec(Zero, Div(One, normal_len), Zero)

ConeRingNormal(t, slope, normal_len) ==
    Vec(Div(Cos(t), normal_len), Div(slope, normal_len),
        Div(Sin(t), normal_len))

ConeSideIndices_NoWrap(apex_idx, segments) ==
    Flatten([i \in 1..segments |-> <<apex_idx, 1 + (i - 1), 1 + i>>])

ConeSideIndices(apex_idx, segments) ==
    Flatten([i \in 1..segments |->
        <<apex_idx, 1 + (i - 1), 1 + (i % segments)>>])

create_cone(radius, height, segments, color, origin) ==
    IF height = Zero THEN Raised("ZeroDivisionError")
    ELSE
    LET apex_idx == 0
        slope == Div(radius, height)
        normal_len == ConeNormalLen(slope)
        side == <<Vec(origin[1], Add(origin[2], height), origin[3])>> \o
                [i \in 1..segments |->
                    RingPoint(origin, radius, origin[2], Angle(i - 1, segments))]
        side_n == <<ConeApexNormal(normal_len)>> \o
                  [i \in 1..segments |->
                    ConeRingNormal(Angle(i - 1, segments), slope, normal_len)]
        bot_center_idx == Len(side)
        bot == CapPositions(origin, radius, origin[2], segments)
        positions == side \o bot
        normals == side_n \o Repeat(DownY, Len(bot))
        indices == ConeSideIndices(apex_idx, segments)
                    \o BotCapIndices(bot_center_idx, segments)
    IN  Returned(positions, normals, Repeat(color, Len(positions)), indices)

(***************************************************************************)
(* create_half_cylinder (generate_medkit.py).  Angle -pi/2 + pi*i/half is  *)
(* -3 + (6*i)/half units.                                                  *)
(***************************************************************************)
HalfAngle(i, half_segments) == (6 * i) \div half_segments - 3

HalfPoint(origin, radius, y, t, axis) ==
    IF axis = "x"
    THEN Vec(origin[1], y, Add(origin[3], Mul(radius, Sin(t))))
    ELSE Vec(Add(origin[1], Mul(radius, Cos(t))), y, origin[3])

HalfNormal(t, axis) ==
    IF axis = "x" THEN Vec(Zero, Zero, Sin(t)) ELSE Vec(Cos(t), Zero, Zero)

HalfIndices_Closed(half_segments) ==
    Flatten([i \in 1..(half_segments + 1) |->
        QuadStrip((i - 1) * 2, (i - 1) * 2 + 1,
                  (i % (half_segments + 1)) * 2,
                  (i % (half_segments + 1)) * 2 + 1)])

HalfIndices(half_segments) ==
    Flatten([i \in 1..half_segments |->
        QuadStrip((i - 1) * 2, (i - 1) * 2 + 1, i * 2, i * 2 + 1)])

create_half_cylinder(radius, height, segments, color, origin, axis) ==
    LET half_segments == segments \div 2
    IN  IF half_segments = 0 THEN Raised("ZeroDivisionError")
        ELSE
        LET positions ==
                [v \in 1..(2 * (half_segments + 1)) |->
                    LET t == HalfAngle((v - 1) \div 2, half_segments)
                    IN  IF (v - 1) % 2 = 0
                        THEN HalfPoint(origin, radius, origin[2], t, axis)
                        ELSE HalfPoint(origin, radius,
                                       Add(origin[2], height), t, axis)]
            normals ==
                [v \in 1..(2 * (half_segments + 1)) |->
                    HalfNormal(HalfAngle((v - 1) \div 2, half_segments), axis)]
        IN  Returned(positions, normals, Repeat(color, Len(positions)),
                     HalfIndices(half_segments))

(***************************************************************************)
(* create_torus                                                            *)
(***************************************************************************)
TorusPoint(outer_r, inner_r, origin, theta, phi) ==
    LET center_x == Add(origin[1], Mul(Sub(outer_r, inner_r), Cos(theta)))
        center_z == Add(origin[3], Mul(Sub(outer_r, inner_r), Sin(theta)))
    IN  Vec(Add(center_x, Mul(Mul(inner_r, Cos(phi)), Cos(theta))),
            Add(origin[2], Mul(inner_r, Sin(phi))),
            Add(center_z, Mul(Mul(inner_r, Cos(phi)), Sin(theta))))

TorusNormal(theta, phi) ==
    Vec(Mul(Cos(phi), Cos(theta)), Sin(phi), Mul(Cos(phi), Sin(theta)))

TorusCell_NoWrap(i, j, segments, rings) ==
    <<i * segments + j, (i + 1) * segments + j, i * segments + (j + 1),
      (i + 1) * segments + j, (i + 1) * segments + (j + 1),
      i * segments + (j + 1)>>

TorusCell_SecondReversed(i, j, segments, rings) ==
    LET curr == i * segments + j
        next_i == ((i + 1) % rings) * segments + j
        next_j == i * segments + ((j + 1) % segments)
        next_ij == ((i + 1) % rings) * segments + ((j + 1) % segments)
    IN  <<curr, next_i, next_j, next_i, next_j, next_ij>>

\* [curr, next_i, next_j, next_i, next_ij, next_j]
TorusCell(i, j, segments, rings) ==
    LET curr == i * segments + j
        next_i == ((i + 1) % rings) * segments + j
        next_j == i * segments + ((j + 1) % segments)
        next_ij == ((i + 1) % rings) * segments + ((j + 1) % segments)
    IN  <<curr, next_i, next_j, next_i, next_ij, next_j>>

create_torus(outer_r, inner_r, segments, rings, color, origin) ==
    LET positions ==
            [v \in 1..(rings * segments) |->
                TorusPoint(outer_r, inner_r, origin,
                           Angle((v - 1) \div segments, rings),
                           Angle((v - 1) % segments, segments))]
        normals ==
            [v \in 1..(rings * segments) |->
                TorusNormal(Angle((v - 1) \div segments, rings),
                            Angle((v - 1) % segments, segments))]
        indices ==
            Flatten([c \in 1..(rings * segments) |->
                TorusCell((c - 1) \div segments, (c - 1) % segments,
                          segments, rings)])
    IN  Returned(positions, normals, Repeat(color, Len(positions)), indices)

(***************************************************************************)
(* create_glb: float32 and uint32 arrays, bytes, and the GLTF2 object.     *)
(* A float32 is its bit pattern: sign bit s and the 31 bits below it, mag  *)
(* (exponent and fraction).  The arrays passed in are float32 and uint32   *)
(* already, so astype() copies them unchanged.                             *)
(***************************************************************************)
F32(s, mag) == [s |-> s, mag |-> mag]

\* little-endian bytes of one float32 / one uint32 (ndarray.tobytes)
F32Bytes(x) ==
    <<x.mag % 256, (x.mag \div 256) % 256, (x.mag \div 65536) % 256,
      (x.mag \div 16777216) + 128 * x.s>>

U32Bytes(n) ==
    <<n % 256, (n \div 256) % 256, (n \div 65536) % 256,
      (n \div 16777216) % 256>>

\* tobytes of an (n, 3) float32 array, row by row
Vec3ArrayBytes(arr) ==
    Flatten([v \in 1..Len(arr) |->
        F32Bytes(arr[v][1]) \o F32Bytes(arr[v][2]) \o F32Bytes(arr[v][3])])

IndexArrayBytes_U16(arr) ==
    Flatten([i \in 1..Len(arr) |-> <<arr[i] % 256, (arr[i] \div 256) % 256>>])

IndexArrayBytes(arr) == Flatten([i \in 1..Len(arr) |-> U32Bytes(arr[i])])

pad_to_4_Always(data) == data \o Repeat(0, 4 - (Len(data) % 4))

pad_to_4(data) == data \o Repeat(0, (4 - (Len(data) % 4)) % 4)

\* float32 order (no NaN, no negative zero among the model's values)
F32Key(x) == IF x.s = 1 THEN -x.mag ELSE x.mag
F32Min(x, y) == IF F32Key(y) < F32Key(x) THEN y ELSE x
F32Max(x, y) == IF F32Key(y) > F32Key(x) THEN y ELSE x

\* positions.min(axis=0)[c] and positions.max(axis=0)[c] over rows 1..n
RECURSIVE ColumnMin(_, _, _)
ColumnMin(positions, c, n) ==
    IF n = 1 THEN positions[1][c]
    ELSE F32Min(ColumnMin(positions, c, n - 1), positions[n][c])

RECURSIVE ColumnMax(_, _, _)
ColumnMax(positions, c, n) ==
    IF n = 1 THEN positions[1][c]
    ELSE F32Max(ColumnMax(positions, c, n - 1), positions[n][c])

PositionMin_FirstRow(positions) == positions[1]

PositionMin(positions) ==
    [c \in 1..3 |-> ColumnMin(positions, c, Len(positions))]

PositionMax(positions) ==
    [c \in 1..3 |-> ColumnMax(positions, c, Len(positions))]

BufferView(byteOffset, byteLength, target) ==
    [buffer |-> 0, byteOffset |-> byteOffset, byteLength |-> byteLength,
     target |-> target]

\* an Accessor; min and max are empty lists unless given
Accessor(bufferView, componentType, count, type, min, max) ==
    [bufferView |-> bufferView, componentType |-> componentType,
     count |-> count, type |-> type, min |-> min, max |-> max]

\* the byte offsets of the four buffer views
ViewOffsets_NotAccumulated(pos_padded, norm_padded, color_padded) ==
    <<0, Len(pos_padded), Len(norm_padded), Len(color_padded)>>

ViewOffsets(pos_padded, norm_padded, color_padded) ==
    <<0, Len(pos_padded), Len(pos_padded) + Len(norm_padded),
      Len(pos_padded) + Len(norm_padded) + Len(color_padded)>>

primitive_DanglingIndices ==
    [attributes |-> [POSITION |-> 0, NORMAL |-> 1, COLOR_0 |-> 2],
     indices |-> 4, mode |-> "TRIANGLES"]

\* Primitive(attributes={"POSITION": 0, "NORMAL": 1, "COLOR_0": 2},
\*           indices=3, mode=TRIANGLES)
primitive ==
    [attributes |-> [POSITION |-> 0, NORMAL |-> 1, COLOR_0 |-> 2],
     indices |-> 3, mode |-> "TRIANGLES"]

NoGltf ==
    [buffers |-> <<>>, bufferViews |-> <<>>, accessors |-> <<>>,
     meshes |-> <<>>, nodes |-> <<>>, scenes |-> <<>>, scene |-> -1]

\* everything create_glb computes before gltf.save: the GLTF2 object and its
\* binary blob, or the error raised on the way (min of an empty array)
GlbPack(positions, normals, colors, indices) ==
    IF Len(positions) = 0
    THEN [status |-> "raise", error |-> "ValueError", gltf |-> NoGltf,
          binary_data |-> <<>>]
    ELSE
    LET pos_bytes == Vec3ArrayBytes(positions)
        norm_bytes == Vec3ArrayBytes(normals)
        color_bytes == Vec3ArrayBytes(colors)
        index_bytes == IndexArrayBytes(indices)
        pos_padded == pad_to_4(pos_bytes)
        norm_padded == pad_to_4(norm_bytes)
        color_padded == pad_to_4(color_bytes)
        index_padded == pad_to_4(index_bytes)
        binary_data == pos_padded \o norm_padded \o color_padded
                        \o index_padded
        offs == ViewOffsets(pos_padded, norm_padded, color_padded)
    IN  [status |-> "ok", error |-> "",
         gltf |->
            [buffers |-> <<[byteLength |-> Len(binary_data)]>>,
             bufferViews |->
                <<BufferView(offs[1], Len(pos_bytes), "ARRAY_BUFFER"),
                  BufferView(offs[2], Len(norm_bytes), "ARRAY_BUFFER"),
                  BufferView(offs[3], Len(color_bytes), "ARRAY_BUFFER"),
                  BufferView(offs[4], Len(index_bytes),
                             "ELEMENT_ARRAY_BUFFER")>>,
             accessors |->
                <<Accessor(0, "FLOAT", Len(positions), "VEC3",
                           PositionMin(positions), PositionMax(positions)),
                  Accessor(1, "FLOAT", Len(normals), "VEC3", <<>>, <<>>),
                  Accessor(2, "FLOAT", Len(colors), "VEC3", <<>>, <<>>),
                  Accessor(3, "UNSIGNED_INT", Len(indices), "SCALAR",
                           <<>>, <<>>)>>,
             meshes |-> <<[primitives |-> <<primitive>>]>>,
             nodes |-> <<[mesh |-> 0]>>,
             scenes |-> <<[nodes |-> <<0>>]>>,
             scene |-> 0],
         binary_data |-> binary_data]

\* a .glb file: the metadata chunk and the binary chunk
GlbFile(gltf, blob) == [exists |-> TRUE, json |-> gltf, bin |-> blob]
NoFile == [exists |-> FALSE, json |-> NoGltf, bin |-> <<>>]

\* the files main() writes into assets/meshes/items
Paths == {"flashlight.glb", "medkit.glb", "toolbox.glb", "map.glb"}

NoGlbArgs ==
    [positions |-> <<>>, normals |-> <<>>, colors |-> <<>>,
     indices |-> <<>>, output_path |-> ""]
NoGlbResult == [status |-> "none", error |-> "", tri_count |-> 0]

\* the two scripts with a main()
Scripts == {"generate_item_models", "generate_medkit"}

\* a script that is not running
NoRun ==
    [pc |-> "not_run", todo |-> <<>>, args |-> NoGlbArgs,
     gltf |-> NoGltf, binary_data |-> <<>>, result |-> NoGlbResult,
     results |-> <<>>]

GlbIdle ==
    /\ glb_args = NoGlbArgs
    /\ storage = [p \in Paths |-> NoFile]
    /\ glb_result = NoGlbResult
    /\ runs = [r \in Scripts |-> NoRun]

glbVars == <<glb_args, storage, glb_result, runs>>

(***************************************************************************)
(* The arguments the calls are drawn from.                                 *)
(***************************************************************************)
SegmentCounts == {n \in 1..MaxSegments : 12 % n = 0}
HalfSegmentCounts ==
    {n \in 1..MaxSegments : n \div 2 = 0 \/ 6 % (n \div 2) = 0}
Lengths == {Num(n) : n \in 1..MaxDim} \cup {Rat(1, 2)}
BoxLengths == Lengths \cup {Zero, Num(-1)}
\* radius and height of the cones: 1 + (radius/height)^2 is a rational square
ConeSizes == {<<Num(3), Num(4)>>, <<Num(4), Num(3)>>, <<Num(8), Num(6)>>}
Origins == {<<Zero, Zero, Zero>>, <<Num(1), Num(-2), Rat(1, 2)>>}
Colors == {<<One, Zero, Zero>>, <<Half, Half, Rat(1, 4)>>}
Axes == {"x", "z"}

MakeCall(fn, sizes, segments, rings, axis, color, origin) ==
    [fn |-> fn, sizes |-> sizes, segments |-> segments, rings |-> rings,
     axis |-> axis, color |-> color, origin |-> origin]
NoCall == MakeCall("none", <<>>, 0, 0, "", <<>>, <<>>)

BoxCalls ==
    {MakeCall("create_box", <<w, h, d>>, 0, 0, "", c, o) :
        w \in BoxLengths, h \in BoxLengths, d \in BoxLengths,
        c \in Colors, o \in Origins}
\* sizes = <<radius, height, top_radius>>
CylinderCalls ==
    {MakeCall("create_cylinder", <<r, h, t>>, n, 0, "", c, o) :
        r \in Lengths, h \in Lengths, t \in Lengths \cup {None},
        n \in SegmentCounts, c \in Colors, o \in Origins}
ConeCalls ==
    {MakeCall("create_cone", rh, n, 0, "", c, o) :
        rh \in ConeSizes, n \in SegmentCounts, c \in Colors, o \in Origins}
HalfCylinderCalls ==
    {MakeCall("create_half_cylinder", <<r, h>>, n, 0, a, c, o) :
        r \in Lengths, h \in Lengths, n \in HalfSegmentCounts, a \in Axes,
        c \in Colors, o \in Origins}
\* sizes = <<outer_r, inner_r>>
TorusCalls ==
    {MakeCall("create_torus", <<Add(ri, re), ri>>, n, m, "", c, o) :
        ri \in Lengths, re \in Lengths, n \in SegmentCounts,
        m \in SegmentCounts, c \in Colors, o \in Origins}

Calls == BoxCalls \cup CylinderCalls \cup ConeCalls \cup HalfCylinderCalls
            \cup TorusCalls

(***************************************************************************)
(* A script calling one builder.                                           *)
(***************************************************************************)
MergeIdle ==
    /\ meshes = <<>>
    /\ k = 0
    /\ all_positions = <<>>
    /\ all_normals = <<>>
    /\ all_colors = <<>>
    /\ all_indices = <<>>
    /\ index_offset = 0
    /\ merged = NoResult

mergeVars == <<meshes, k, all_positions, all_normals, all_colors, all_indices,
               index_offset, merged>>

InitBuild ==
    /\ pc = "call"
    /\ call \in Calls
    /\ out = NoResult
    /\ MergeIdle
    /\ GlbIdle

Return(result) ==
    /\ out' = result
    /\ pc' = IF result.status = "ok" THEN "returned" ELSE "raised"
    /\ UNCHANGED <<call, mergeVars, glbVars>>

CallBox ==
    /\ pc = "call" /\ call.fn = "create_box"
    /\ Return(create_box(call.sizes[1], call.sizes[2], call.sizes[3],
                         call.color, call.origin))

CallCylinder ==
    /\ pc = "call" /\ call.fn = "create_cylinder"
    /\ Return(create_cylinder(call.sizes[1], call.sizes[2], call.segments,
                              call.color, call.origin, call.sizes[3]))

CallCone ==
    /\ pc = "call" /\ call.fn = "create_cone"
    /\ Return(create_cone(call.sizes[1], call.sizes[2], call.segments,
                          call.color, call.origin))

CallHalfCylinder ==
    /\ pc = "call" /\ call.fn = "create_half_cylinder"
    /\ Return(create_half_cylinder(call.sizes[1], call.sizes[2],
                                   call.segments, call.color, call.origin,
                                   call.axis))

CallTorus ==
    /\ pc = "call" /\ call.fn = "create_torus"
    /\ Return(create_torus(call.sizes[1], call.sizes[2], call.segments,
                           call.rings, call.color, call.origin))

NextBuild ==
    \/ CallBox
    \/ CallCylinder
    \/ CallCone
    \/ CallHalfCylinder
    \/ CallTorus

SpecBuild == InitBuild /\ [][NextBuild]_vars

(***************************************************************************)
(* Properties of the builders (SpecBuild).                                 *)
(***************************************************************************)
\* in-contract arguments: positive sizes, positive segment and ring counts
ValidCall(c) ==
    /\ \A s \in 1..Len(c.sizes) : c.sizes[s] = None \/ IsPos(c.sizes[s])
    /\ c.fn # "create_box" => c.segments >= 1
    /\ c.fn = "create_torus" => c.rings >= 1

\* proper solids: at least 3 steps around every axis, and a torus whose
\* tube does not reach its own axis
ProperCall(c) ==
    /\ ValidCall(c)
    /\ c.fn # "create_box" => c.segments >= 3
    /\ c.fn = "create_torus" =>
        c.rings >= 3 /\ IsPos(Sub(c.sizes[1], Mul(Num(2), c.sizes[2])))

VertexCount(m) == Len(m.positions)
TriangleCount(m) == Len(m.indices) \div 3
\* the three vertex indices of triangle t (1-based t)
Tri(m, t) == <<m.indices[3 * t - 2], m.indices[3 * t - 1], m.indices[3 * t]>>

WellFormed(m) ==
    /\ Len(m.positions) = Len(m.normals)
    /\ Len(m.normals) = Len(m.colors)
    /\ Len(m.indices) % 3 = 0
    /\ \A i \in 1..Len(m.indices) :
        m.indices[i] >= 0 /\ m.indices[i] < Len(m.positions)

\* C4: every builder call with valid arguments that returns, returns arrays
\* of one common length, an index count divisible by 3 and only indices
\* below the vertex count.
C4_BuildersWellFormed ==
    (pc = "returned" /\ ValidCall(call)) => WellFormed(out)

C4_Witness ==
    /\ pc = "returned" /\ ValidCall(call)
    /\ call.fn = "create_torus" /\ call.rings = 3 /\ call.segments = 4
    /\ Len(out.indices) = 72

\* C5: every normal emitted by every builder has magnitude 1.
C5_NormalsUnit ==
    (pc = "returned" /\ ProperCall(call)) =>
        \A v \in 1..Len(out.normals) :
            Dot(out.normals[v], out.normals[v]) = One

\* C6: every triangle (a, b, c) of every primitive output is wound
\* counter-clockwise seen from the side of its normals: the cross product
\* (p_b - p_a) x (p_c - p_a) has a positive dot product with the normals
\* stored at a, b and c.
C6_WindingCCW ==
    (pc = "returned" /\ ProperCall(call)) =>
        \A t \in 1..TriangleCount(out) :
            LET tri == Tri(out, t)
                pa == out.positions[tri[1] + 1]
                pb == out.positions[tri[2] + 1]
                pn == out.positions[tri[3] + 1]
                face == Cross(VSub(pb, pa), VSub(pn, pa))
            IN  \A c \in 1..3 : IsPos(Dot(face, out.normals[tri[c] + 1]))

AxisUnits ==
    {Vec(Num(x), Num(y), Num(z)) :
        <<x, y, z>> \in {<<1, 0, 0>>, <<-1, 0, 0>>, <<0, 1, 0>>,
                         <<0, -1, 0>>, <<0, 0, 1>>, <<0, 0, -1>>}}

\* C7: create_box returns 24 vertices and 36 indices whatever its arguments;
\* face f uses vertices 4f..4f+3 through the template (4f, 4f+1, 4f+2, 4f,
\* 4f+2, 4f+3); the four vertices of a face share one axis-aligned unit
\* normal and each of the six is used by exactly one face.
C7_BoxShape ==
    (pc = "returned" /\ call.fn = "create_box") =>
        /\ Len(out.positions) = 24 /\ Len(out.normals) = 24
        /\ Len(out.colors) = 24 /\ Len(out.indices) = 36
        /\ \A f \in 0..5 :
            /\ SubSeq(out.indices, 6 * f + 1, 6 * f + 6) =
                <<4 * f, 4 * f + 1, 4 * f + 2, 4 * f, 4 * f + 2, 4 * f + 3>>
            /\ out.normals[4 * f + 1] \in AxisUnits
            /\ \A c \in 1..4 : out.normals[4 * f + c] = out.normals[4 * f + 1]
        /\ \A f, g \in 0..5 :
            f # g => out.normals[4 * f + 1] # out.normals[4 * g + 1]

C7_Witness ==
    /\ pc = "returned" /\ call.fn = "create_box"
    /\ call.sizes = <<Num(2), Rat(1, 2), Num(1)>>
    /\ call.origin = <<Num(1), Num(-2), Rat(1, 2)>>
    /\ out.positions[1] = Vec(Zero, Rat(-9, 4), One)

\* C8: create_cylinder with segments = N >= 3 returns 4N+2 vertices and 12N
\* indices, with top_radius omitted or given.
C8_CylinderCounts ==
    (pc = "returned" /\ call.fn = "create_cylinder" /\ call.segments >= 3) =>
        /\ Len(out.positions) = 4 * call.segments + 2
        /\ Len(out.normals) = 4 * call.segments + 2
        /\ Len(out.colors) = 4 * call.segments + 2
        /\ Len(out.indices) = 12 * call.segments

C8_Witness ==
    /\ pc = "returned" /\ call.fn = "create_cylinder"
    /\ call.segments = 6 /\ call.sizes[3] # None
    /\ call.sizes[3] # call.sizes[1]
    /\ Len(out.positions) = 26 /\ Len(out.indices) = 72

(***************************************************************************)
(* merge_meshes, one loop iteration per step.                              *)
(* Index arrays are uint32; the model's vertex counts stay far below 2^32, *)
(* so the sums are plain integers.                                         *)
(***************************************************************************)
\* indices + index_offset
OffsetIndices_NoOffset(indices, offset) == indices

OffsetIndices(indices, offset) ==
    [i \in 1..Len(indices) |-> indices[i] + offset]

\* index_offset += len(positions)
NextOffset_ByIndices(offset, mesh) == offset + Len(mesh.indices)

NextOffset_ByTriangles(offset, mesh) == offset + Len(mesh.indices) \div 3

NextOffset(offset, mesh) == offset + Len(mesh.positions)

\* np.vstack / np.hstack of a list of arrays: the arrays end to end;
\* an empty list raises ValueError (need at least one array to concatenate)
Stack(arrays) == Flatten(arrays)

MergeResult(ap, an, ac, ai) ==
    IF ap = <<>> THEN Raised("ValueError")
    ELSE Returned(Stack(ap), Stack(an), Stack(ac), Stack(ai))

\* the primitives handed to merge_meshes
SampleMeshes ==
    {create_box(One, Num(2), Half, <<One, Zero, Zero>>, <<Zero, Zero, Zero>>),
     create_cylinder(One, Num(2), 3, <<Half, Half, Half>>,
                     <<One, Zero, Zero>>, None),
     create_cone(Num(3), Num(4), 3, <<Zero, One, Zero>>, <<Zero, One, Zero>>),
     create_half_cylinder(One, One, 4, <<Zero, Zero, One>>,
                          <<Zero, Zero, One>>, "x"),
     create_torus(Num(2), Half, 3, 3, <<One, One, Zero>>,
                  <<Zero, Zero, Zero>>)}

MeshLists == UNION {[1..n -> SampleMeshes] : n \in 0..MaxMeshes}

InitMerge ==
    /\ pc = "merge_loop"
    /\ call = NoCall
    /\ out = NoResult
    /\ meshes \in MeshLists
    /\ k = 0
    /\ all_positions = <<>>
    /\ all_normals = <<>>
    /\ all_colors = <<>>
    /\ all_indices = <<>>
    /\ index_offset = 0
    /\ merged = NoResult
    /\ GlbIdle

\* one pass of `for positions, normals, colors, indices in meshes`
MergeLoop ==
    /\ pc = "merge_loop"
    /\ k < Len(meshes)
    /\ LET mesh == meshes[k + 1]
       IN  /\ all_positions' = Append(all_positions, mesh.positions)
           /\ all_normals' = Append(all_normals, mesh.normals)
           /\ all_colors' = Append(all_colors, mesh.colors)
           /\ all_indices' =
                Append(all_indices, OffsetIndices(mesh.indices, index_offset))
           /\ index_offset' = NextOffset(index_offset, mesh)
    /\ k' = k + 1
    /\ UNCHANGED <<pc, call, out, meshes, merged, glbVars>>

\* the return statement: vstack of the three vertex lists, hstack of indices
MergeReturn ==
    /\ pc = "merge_loop"
    /\ k = Len(meshes)
    /\ merged' = MergeResult(all_positions, all_normals, all_colors,
                             all_indices)
    /\ pc' = IF merged'.status = "ok" THEN "merge_returned"
                                      ELSE "merge_raised"
    /\ UNCHANGED <<call, out, meshes, k, all_positions, all_normals,
                   all_colors, all_indices, index_offset, glbVars>>

NextMerge == MergeLoop \/ MergeReturn

SpecMerge == InitMerge /\ [][NextMerge]_vars

(***************************************************************************)
(* Properties of merge_meshes (SpecMerge).                                 *)
(***************************************************************************)
\* vertex and index counts of the first j inputs
RECURSIVE VertsBefore(_, _)
VertsBefore(ms, j) ==
    IF j = 0 THEN 0 ELSE VertsBefore(ms, j - 1) + Len(ms[j].positions)

RECURSIVE IndicesBefore(_, _)
IndicesBefore(ms, j) ==
    IF j = 0 THEN 0 ELSE IndicesBefore(ms, j - 1) + Len(ms[j].indices)

\* C1: merging K >= 1 primitive outputs returns the inputs' vertex arrays end
\* to end in call order and each input's indices, in call order, raised by
\* the number of vertices of the inputs before it; the running offset is
\* that number at every pass of the loop (0 at the start).
C1_MergeConcatenates ==
    /\ pc = "merge_loop" =>
        /\ index_offset = VertsBefore(meshes, k)
        /\ Len(all_indices) = k
    /\ pc = "merge_raised" => meshes = <<>>
    /\ pc = "merge_returned" =>
        /\ Len(merged.positions) = VertsBefore(meshes, Len(meshes))
        /\ Len(merged.normals) = VertsBefore(meshes, Len(meshes))
        /\ Len(merged.colors) = VertsBefore(meshes, Len(meshes))
        /\ Len(merged.indices) = IndicesBefore(meshes, Len(meshes))
        /\ \A j \in 1..Len(meshes) :
            LET m == meshes[j]
                v0 == VertsBefore(meshes, j - 1)
                i0 == IndicesBefore(meshes, j - 1)
            IN  /\ \A v \in 1..Len(m.positions) :
                    /\ merged.positions[v0 + v] = m.positions[v]
                    /\ merged.normals[v0 + v] = m.normals[v]
                    /\ merged.colors[v0 + v] = m.colors[v]
                /\ \A i \in 1..Len(m.indices) :
                    merged.indices[i0 + i] = m.indices[i] + v0

\* a box (24 vertices) then a 3-step cylinder (14 vertices)
C1_Witness ==
    /\ pc = "merge_returned"
    /\ Len(meshes) = 2
    /\ Len(meshes[1].positions) = 24 /\ Len(meshes[2].positions) = 14
    /\ Len(merged.positions) = 38
    /\ merged.indices[37] = 24

\* C2: after merging well-formed inputs every triangle of the result lies in
\* the vertex range of one single input, and every index is below the total
\* vertex count.
C2_TrianglesStayInOneInput ==
    (pc = "merge_returned" /\ \A j \in 1..Len(meshes) : WellFormed(meshes[j]))
    =>  /\ Len(merged.indices) % 3 = 0
        /\ \A t \in 1..TriangleCount(merged) :
            \E j \in 1..Len(meshes) :
                \A c \in 1..3 :
                    /\ Tri(merged, t)[c] >= VertsBefore(meshes, j - 1)
                    /\ Tri(merged, t)[c] < VertsBefore(meshes, j)
        /\ \A i \in 1..Len(merged.indices) :
            merged.indices[i] < Len(merged.positions)

C2_Witness ==
    /\ pc = "merge_returned"
    /\ Len(meshes) = 3
    /\ \A j \in 1..3 : WellFormed(meshes[j])
    /\ meshes[1] # meshes[2]
    /\ TriangleCount(merged) > TriangleCount(meshes[1])

\* C3: merge_meshes of an empty list does not fail and returns empty
\* position, normal, color and index buffers.
C3_EmptyMergeReturnsEmpty ==
    (pc \in {"merge_returned", "merge_raised"} /\ meshes = <<>>) =>
        merged = Returned(<<>>, <<>>, <<>>, <<>>)

(***************************************************************************)
(* A script calling create_glb on one compound mesh.                       *)
(***************************************************************************)
\* float32 values by bit pattern: 0, 1, 0.5, 0.14, 0.09, 0.05, and negatives
PosSamples ==
    {<<F32(0, 1041194025), F32(1, 1035489772), F32(0, 1028443341)>>,
     <<F32(1, 1041194025), F32(0, 1035489772), F32(1, 1028443341)>>,
     <<F32(0, 1065353216), F32(0, 0), F32(1, 1056964608)>>}
NormalSamples ==
    {<<F32(0, 0), F32(0, 0), F32(0, 1065353216)>>,
     <<F32(0, 0), F32(1, 1065353216), F32(0, 0)>>}
\* (0.545, 0.118, 0.118) and (1, 1, 1)
ColorSamples ==
    {<<F32(0, 1057719583), F32(0, 1039247868), F32(0, 1039247868)>>,
     <<F32(0, 1065353216), F32(0, 1065353216), F32(0, 1065353216)>>}

\* no triangle, one triangle over the n vertices, or one with wide indices
IndexLists(n) ==
    {<<>>} \cup [1..3 -> 0..(n - 1)] \cup {<<66051, 0, 16909060>>}

GlbInputs ==
    UNION {
        {[positions |-> p, normals |-> nn, colors |-> Repeat(c, n),
          indices |-> ix, output_path |-> path] :
            p \in [1..n -> PosSamples], nn \in [1..n -> NormalSamples],
            c \in ColorSamples, ix \in IndexLists(n), path \in {"medkit.glb"}} :
        n \in 0..MaxVerts}

InitGlb ==
    /\ pc = "glb_call"
    /\ call = NoCall
    /\ out = NoResult
    /\ MergeIdle
    /\ glb_args \in GlbInputs
    /\ storage = [p \in Paths |-> NoFile]
    /\ glb_result = NoGlbResult
    /\ runs = [r \in Scripts |-> NoRun]

CreateGlb_SaveFirst ==
    /\ pc = "glb_call"
    /\ LET packed == GlbPack(glb_args.positions, glb_args.normals,
                             glb_args.colors, glb_args.indices)
       IN  IF packed.status = "ok"
           THEN /\ storage' =
                    [storage EXCEPT ![glb_args.output_path] =
                        GlbFile(packed.gltf, packed.binary_data)]
                /\ glb_result' =
                    [status |-> "ok", error |-> "",
                     tri_count |-> Len(glb_args.indices) \div 3]
                /\ pc' = "glb_returned"
           ELSE /\ storage' =
                    [storage EXCEPT ![glb_args.output_path] =
                        GlbFile(NoGltf, <<>>)]
                /\ glb_result' =
                    [status |-> "raise", error |-> packed.error,
                     tri_count |-> 0]
                /\ pc' = "glb_raised"
    /\ UNCHANGED <<call, out, mergeVars, glb_args, runs>>

\* create_glb: pack, gltf.set_binary_blob, gltf.save, return the tri count
CreateGlb ==
    /\ pc = "glb_call"
    /\ LET packed == GlbPack(glb_args.positions, glb_args.normals,
                             glb_args.colors, glb_args.indices)
       IN  IF packed.status = "ok"
           THEN /\ storage' =
                    [storage EXCEPT ![glb_args.output_path] =
                        GlbFile(packed.gltf, packed.binary_data)]
                /\ glb_result' =
                    [status |-> "ok", error |-> "",
                     tri_count |-> Len(glb_args.indices) \div 3]
                /\ pc' = "glb_returned"
           ELSE /\ storage' = storage
                /\ glb_result' =
                    [status |-> "raise", error |-> packed.error,
                     tri_count |-> 0]
                /\ pc' = "glb_raised"
    /\ UNCHANGED <<call, out, mergeVars, glb_args, runs>>

NextGlb == CreateGlb

SpecGlb == InitGlb /\ [][NextGlb]_vars

(***************************************************************************)
(* Properties of create_glb (SpecGlb).  A reader of the file: it follows   *)
(* an accessor to its buffer view and decodes count elements.              *)
(***************************************************************************)
F32FromBytes(b) ==
    F32(b[4] \div 128, b[1] + 256 * b[2] + 65536 * b[3]
                        + 16777216 * (b[4] % 128))
U32FromBytes(b) == b[1] + 256 * b[2] + 65536 * b[3] + 16777216 * b[4]

ComponentsOf(type) == IF type = "VEC3" THEN 3 ELSE 1

ReadAccessor(file, a) ==
    LET acc == file.json.accessors[a + 1]
        view == file.json.bufferViews[acc.bufferView + 1]
        bytes == SubSeq(file.bin, view.byteOffset + 1,
                        view.byteOffset + view.byteLength)
        nc == ComponentsOf(acc.type)
        word(e, c) == SubSeq(bytes, 4 * ((e - 1) * nc + (c - 1)) + 1,
                             4 * ((e - 1) * nc + (c - 1)) + 4)
        value(e, c) == IF acc.componentType = "FLOAT"
                       THEN F32FromBytes(word(e, c))
                       ELSE U32FromBytes(word(e, c))
    IN  IF Len(bytes) # view.byteLength \/ 4 * nc * acc.count > Len(bytes)
        THEN [readable |-> FALSE, data |-> <<>>]
        ELSE [readable |-> TRUE,
              data |-> [e \in 1..acc.count |->
                          IF nc = 1 THEN <<value(e, 1)>>
                          ELSE [c \in 1..nc |-> value(e, c)]]]

Written == storage[glb_args.output_path]
WrittenPrimitive == Written.json.meshes[1].primitives[1]

\* C9: decoding the written blob through its buffer views and accessors
\* gives back the position, normal, color and index arrays passed in, for
\* every mesh with at least one vertex.
C9_RoundTrip ==
    (pc = "glb_returned" /\ Len(glb_args.positions) >= 1) =>
        /\ Written.exists
        /\ ReadAccessor(Written, WrittenPrimitive.attributes.POSITION) =
            [readable |-> TRUE, data |-> glb_args.positions]
        /\ ReadAccessor(Written, WrittenPrimitive.attributes.NORMAL) =
            [readable |-> TRUE, data |-> glb_args.normals]
        /\ ReadAccessor(Written, WrittenPrimitive.attributes.COLOR_0) =
            [readable |-> TRUE, data |-> glb_args.colors]
        /\ ReadAccessor(Written, WrittenPrimitive.indices) =
            [readable |-> TRUE,
             data |-> [i \in 1..Len(glb_args.indices) |->
                         <<glb_args.indices[i]>>]]

C9_Witness ==
    /\ pc = "glb_returned"
    /\ Len(glb_args.positions) = 2
    /\ glb_args.positions[1] # glb_args.positions[2]
    /\ glb_args.normals[1] # glb_args.normals[2]
    /\ glb_args.indices = <<66051, 0, 16909060>>
    /\ Len(Written.bin) = 84

\* C10: the position accessor records the exact componentwise minimum and
\* maximum of the positions; no other accessor carries min or max.
C10_PositionBounds ==
    pc = "glb_returned" =>
        LET acc == Written.json.accessors
            pos == acc[WrittenPrimitive.attributes.POSITION + 1]
        IN  /\ Len(pos.min) = 3 /\ Len(pos.max) = 3
            /\ \A c \in 1..3 :
                /\ \A v \in 1..Len(glb_args.positions) :
                    /\ F32Key(pos.min[c]) <= F32Key(glb_args.positions[v][c])
                    /\ F32Key(pos.max[c]) >= F32Key(glb_args.positions[v][c])
                /\ \E v \in 1..Len(glb_args.positions) :
                    pos.min[c] = glb_args.positions[v][c]
                /\ \E v \in 1..Len(glb_args.positions) :
                    pos.max[c] = glb_args.positions[v][c]
            /\ \A a \in 1..Len(acc) :
                a # WrittenPrimitive.attributes.POSITION + 1 =>
                    acc[a].min = <<>> /\ acc[a].max = <<>>

C10_Witness ==
    /\ pc = "glb_returned"
    /\ Len(glb_args.positions) = 2
    /\ Written.json.accessors[1].min # glb_args.positions[1]
    /\ Written.json.accessors[1].min # glb_args.positions[2]
    /\ Written.json.accessors[1].max # glb_args.positions[1]
    /\ Written.json.accessors[1].max # glb_args.positions[2]

(***************************************************************************)
(* Generation runs: main() of generate_item_models.py and of               *)
(* generate_medkit.py.  A run builds each of its assets and passes it to   *)
(* create_glb, which packs the arrays and hands the destination path to    *)
(* gltf.save; the save opens the path for writing (truncating it), writes  *)
(* the JSON chunk and then the binary chunk.  The storage can fail at any  *)
(* of these steps.                                                         *)
(***************************************************************************)
\* name, file and triangle limit of each asset, in the order main builds them
ItemModelAssets ==
    <<[name |-> "Flashlight", path |-> "flashlight.glb", limit |-> 800],
      [name |-> "Medkit", path |-> "medkit.glb", limit |-> 900],
      [name |-> "Toolbox", path |-> "toolbox.glb", limit |-> 1000],
      [name |-> "Map", path |-> "map.glb", limit |-> 400]>>
MedkitAssets ==
    <<[name |-> "Medkit", path |-> "medkit.glb", limit |-> 900]>>

AssetsOf(r) ==
    IF r = "generate_item_models" THEN ItemModelAssets ELSE MedkitAssets

\* a compound mesh of `tris` triangles over three vertices
Model(color, tris) ==
    [positions |->
        <<<<F32(0, 1041194025), F32(1, 1035489772), F32(0, 1028443341)>>,
          <<F32(1, 1041194025), F32(0, 1035489772), F32(1, 1028443341)>>,
          <<F32(0, 1065353216), F32(0, 0), F32(1, 1056964608)>>>>,
     normals |-> Repeat(<<F32(0, 0), F32(0, 0), F32(0, 1065353216)>>, 3),
     colors |-> Repeat(color, 3),
     indices |-> [i \in 1..(3 * tris) |-> (i - 1) % 3]]

DarkRed == <<F32(0, 1057719583), F32(0, 1039247868), F32(0, 1039247868)>>
White == <<F32(0, 1065353216), F32(0, 1065353216), F32(0, 1065353216)>>

\* what the asset's create_* function returns: a mesh well under the limit,
\* exactly at the limit, or one triangle over it
ModelsFor(asset, color) ==
    {Model(color, 1), Model(color, asset.limit), Model(color, asset.limit + 1)}

\* a run at the top of main(): every asset still to do, each with its mesh
StartedRun(assets, models) ==
    [pc |-> "main",
     todo |-> [j \in 1..Len(assets) |->
                [name |-> assets[j].name, path |-> assets[j].path,
                 limit |-> assets[j].limit, model |-> models[j]]],
     args |-> NoGlbArgs, gltf |-> NoGltf, binary_data |-> <<>>,
     result |-> NoGlbResult, results |-> <<>>]

\* a file left by an earlier run
OldFile ==
    LET m == Model(White, 2)
        packed == GlbPack(m.positions, m.normals, m.colors, m.indices)
    IN  GlbFile(packed.gltf, packed.binary_data)

RunIdle ==
    /\ pc = "runs"
    /\ call = NoCall
    /\ out = NoResult
    /\ MergeIdle
    /\ glb_args = NoGlbArgs
    /\ glb_result = NoGlbResult

runIdleVars == <<pc, call, out, mergeVars, glb_args, glb_result>>

\* p, n, c, i = create_<asset>(); tris = create_glb(p, n, c, i, path)
MainCreate(r) ==
    /\ runs[r].pc = "main"
    /\ runs[r].todo # <<>>
    /\ LET asset == Head(runs[r].todo)
       IN  runs' = [runs EXCEPT
                ![r].args =
                    [positions |-> asset.model.positions,
                     normals |-> asset.model.normals,
                     colors |-> asset.model.colors,
                     indices |-> asset.model.indices,
                     output_path |-> asset.path],
                ![r].pc = "glb_call"]
    /\ UNCHANGED <<runIdleVars, storage>>

\* create_glb up to gltf.set_binary_blob
GlbBegin(r) ==
    /\ runs[r].pc = "glb_call"
    /\ LET a == runs[r].args
           packed == GlbPack(a.positions, a.normals, a.colors, a.indices)
       IN  IF packed.status = "ok"
           THEN runs' = [runs EXCEPT ![r].gltf = packed.gltf,
                                     ![r].binary_data = packed.binary_data,
                                     ![r].pc = "glb_save"]
           ELSE runs' = [runs EXCEPT
                    ![r].result = [status |-> "raise",
                                   error |-> packed.error, tri_count |-> 0],
                    ![r].pc = "glb_raised"]
    /\ UNCHANGED <<runIdleVars, storage>>

\* gltf.save(output_path): open the destination itself for writing
SaveOpen(r) ==
    /\ runs[r].pc = "glb_save"
    /\ storage' = [storage EXCEPT ![runs[r].args.output_path] =
                        GlbFile(NoGltf, <<>>)]
    /\ runs' = [runs EXCEPT ![r].pc = "glb_write_json"]
    /\ UNCHANGED runIdleVars

\* gltf.save: the header and the JSON chunk
SaveWriteJson(r) ==
    /\ runs[r].pc = "glb_write_json"
    /\ storage' = [storage EXCEPT ![runs[r].args.output_path] =
                        GlbFile(runs[r].gltf, @.bin)]
    /\ runs' = [runs EXCEPT ![r].pc = "glb_write_bin"]
    /\ UNCHANGED runIdleVars

\* gltf.save: the binary chunk; then return len(indices) // 3
SaveWriteBin(r) ==
    /\ runs[r].pc = "glb_write_bin"
    /\ storage' = [storage EXCEPT ![runs[r].args.output_path] =
                        GlbFile(@.json, runs[r].binary_data)]
    /\ runs' = [runs EXCEPT
            ![r].result = [status |-> "ok", error |-> "",
                           tri_count |-> Len(runs[r].args.indices) \div 3],
            ![r].pc = "glb_returned"]
    /\ UNCHANGED runIdleVars

\* the storage fails under gltf.save (disk full, permission denied, missing
\* directory): the error leaves create_glb
StorageFailure(r) ==
    /\ runs[r].pc \in {"glb_save", "glb_write_json", "glb_write_bin"}
    /\ runs' = [runs EXCEPT
            ![r].result = [status |-> "raise", error |-> "OSError",
                           tri_count |-> 0],
            ![r].pc = "glb_raised"]
    /\ UNCHANGED <<runIdleVars, storage>>

StatusLabel_Strict(tris, limit) == IF tris < limit THEN "OK" ELSE "OVER LIMIT"

\* status = "OK" if tris <= LIMIT else "OVER LIMIT"
StatusLabel(tris, limit) == IF tris <= limit THEN "OK" ELSE "OVER LIMIT"

\* results.append((name, tris, limit, status)) and the print of the status
MainRecord(r) ==
    /\ runs[r].pc = "glb_returned"
    /\ LET asset == Head(runs[r].todo)
           tris == runs[r].result.tri_count
       IN  runs' = [runs EXCEPT
                ![r].results =
                    Append(@, [name |-> asset.name, tris |-> tris,
                               limit |-> asset.limit,
                               status |-> StatusLabel(tris, asset.limit)]),
                ![r].todo = Tail(@),
                ![r].pc = "main"]
    /\ UNCHANGED <<runIdleVars, storage>>

MainRaise_Swallowed(r) ==
    /\ runs[r].pc = "glb_raised"
    /\ runs' = [runs EXCEPT ![r].todo = Tail(@), ![r].pc = "main"]
    /\ UNCHANGED <<runIdleVars, storage>>

\* main has no handler: an error of create_glb ends the run
MainRaise(r) ==
    /\ runs[r].pc = "glb_raised"
    /\ runs' = [runs EXCEPT ![r].pc = "main_raised"]
    /\ UNCHANGED <<runIdleVars, storage>>

\* the summary after the last asset
MainSummary(r) ==
    /\ runs[r].pc = "main"
    /\ runs[r].todo = <<>>
    /\ runs' = [runs EXCEPT ![r].pc = "main_done"]
    /\ UNCHANGED <<runIdleVars, storage>>

NextRuns ==
    \E r \in Scripts :
        \/ MainCreate(r)
        \/ GlbBegin(r)
        \/ SaveOpen(r)
        \/ SaveWriteJson(r)
        \/ SaveWriteBin(r)
        \/ StorageFailure(r)
        \/ MainRecord(r)
        \/ MainRaise(r)
        \/ MainSummary(r)

\* the meshes the create_* functions of a script return, one per asset
ModelLists(r) ==
    IF r = "generate_item_models"
    THEN {<<m1, m2, m3, m4>> :
            m1 \in ModelsFor(ItemModelAssets[1], DarkRed),
            m2 \in ModelsFor(ItemModelAssets[2], DarkRed),
            m3 \in ModelsFor(ItemModelAssets[3], DarkRed),
            m4 \in ModelsFor(ItemModelAssets[4], DarkRed)}
    ELSE {<<m1>> : m1 \in ModelsFor(MedkitAssets[1], White)}

\* one run of either script, over an empty or a populated output directory
InitMain ==
    /\ RunIdle
    /\ storage \in {[p \in Paths |-> NoFile], [p \in Paths |-> OldFile]}
    /\ \E script \in Scripts :
        \E models \in ModelLists(script) :
            runs = [r \in Scripts |->
                      IF r = script THEN StartedRun(AssetsOf(r), models)
                      ELSE NoRun]

SpecMain == InitMain /\ [][NextRuns]_vars

(***************************************************************************)
(* Properties of the runs (SpecMain).                                      *)
(***************************************************************************)
\* a file with both of its chunks, the binary one as long as the JSON says
CompleteFile(f) ==
    /\ f.exists
    /\ f.json # NoGltf
    /\ Len(f.bin) = f.json.buffers[1].byteLength

Writing(r) == runs[r].pc \in {"glb_write_json", "glb_write_bin"}

\* C11: create_glb overwrites its destination atomically or not at all: once
\* no write is under way (create_glb has returned, or has raised after a
\* storage failure in the middle of the write), every destination is absent
\* or holds a complete file (the previous one or the new one), never part
\* of a file.
C11_AtomicOverwrite ==
    (\A r \in Scripts : ~Writing(r)) =>
        \A p \in Paths : storage[p] = NoFile \/ CompleteFile(storage[p])

\* the file of the j-th asset of script r
AssetFile(r, j) == storage[AssetsOf(r)[j].path]

\* C12: in a batch run of generate_item_models.main a failed write is not
\* swallowed: the error leaves create_glb, main does nothing more (no result
\* is recorded, no further asset is built), and at every step, the failing
\* one included, the files of the assets the run has already written keep
\* their content.
C12_FailureSurfacedOthersKept ==
    [][LET r == "generate_item_models"
           old == runs[r]
           new == runs'[r]
       IN  /\ \A j \in 1..Len(old.results) : AssetFile(r, j)' = AssetFile(r, j)
           /\ (/\ old.pc \in {"glb_save", "glb_write_json", "glb_write_bin"}
               /\ new.pc # old.pc
               /\ new.pc \notin {"glb_write_json", "glb_write_bin",
                                 "glb_returned"})
                => /\ new.pc = "glb_raised"
                   /\ new.result.status = "raise"
                   /\ new.result.error = "OSError"
           /\ old.pc = "glb_raised"
                => /\ new.pc = "main_raised"
                   /\ new.result = old.result
                   /\ new.results = old.results
                   /\ new.todo = old.todo
           /\ old.pc = "main_raised" => new = old]_vars

\* a run that wrote two assets and then failed in the middle of the third,
\* over a directory that held older files
C12_Witness ==
    LET run == runs["generate_item_models"]
    IN  /\ run.pc = "main_raised"
        /\ Len(run.results) = 2
        /\ run.result.error = "OSError"
        /\ AssetFile("generate_item_models", 1) # OldFile
        /\ CompleteFile(AssetFile("generate_item_models", 2))
        /\ ~CompleteFile(AssetFile("generate_item_models", 3))
        /\ AssetFile("generate_item_models", 4) = OldFile

\* C13: a triangle count over the budget is never a failure.  Every asset a
\* run has recorded has its file written whole and its recorded count is
\* the file's index count // 3, whatever the count; the label is OK exactly
\* when the count is <= the limit and OVER LIMIT otherwise; a run stops
\* early only on a storage error, otherwise the next asset (or the summary)
\* is the next step, and a run that finished has recorded every asset.
C13_OverBudgetIsNotFailure ==
    \A r \in Scripts :
        LET run == runs[r]
        IN  /\ \A j \in 1..Len(run.results) :
                LET rec == run.results[j]
                    f == AssetFile(r, j)
                IN  /\ CompleteFile(f)
                    /\ rec.tris = f.json.accessors[4].count \div 3
                    /\ rec.name = AssetsOf(r)[j].name
                    /\ rec.limit = AssetsOf(r)[j].limit
                    /\ rec.status = "OK" <=> rec.tris <= rec.limit
                    /\ rec.status = "OVER LIMIT" <=> rec.tris > rec.limit
            /\ run.result.status = "raise" => run.result.error = "OSError"
            /\ run.pc = "main" /\ run.todo # <<>> => ENABLED MainCreate(r)
            /\ run.pc = "main" /\ run.todo = <<>> => ENABLED MainSummary(r)
            /\ run.pc = "glb_returned" => ENABLED MainRecord(r)
            /\ run.pc = "main_done" => Len(run.results) = Len(AssetsOf(r))

\* a finished batch: the flashlight one triangle over its limit, the medkit
\* exactly at its limit, the map well under
C13_Witness ==
    LET run == runs["generate_item_models"]
    IN  /\ run.pc = "main_done"
        /\ run.results[1].tris = 801 /\ run.results[1].status = "OVER LIMIT"
        /\ run.results[2].tris = 900 /\ run.results[2].status = "OK"
        /\ run.results[4].tris = 1 /\ run.results[4].status = "OK"

(***************************************************************************)
(* A session: one process that calls builders, merge_meshes and create_glb *)
(* any number of times in any order, as the create_* functions and main    *)
(* do.  Whatever an earlier call left behind (its result, the merge's      *)
(* locals, the files) is still there when the next call starts.            *)
(***************************************************************************)
SessionCalls ==
    {MakeCall("create_box", <<One, Num(2), Half>>, 0, 0, "",
              <<One, Zero, Zero>>, <<Zero, Zero, Zero>>),
     MakeCall("create_cylinder", <<One, Num(2), None>>, 3, 0, "",
              <<Half, Half, Half>>, <<One, Zero, Zero>>),
     MakeCall("create_cone", <<Num(3), Num(4)>>, 3, 0, "",
              <<Zero, One, Zero>>, <<Zero, One, Zero>>),
     MakeCall("create_half_cylinder", <<One, One>>, 4, 0, "x",
              <<Zero, Zero, One>>, <<Zero, Zero, One>>),
     MakeCall("create_torus", <<Num(2), Half>>, 3, 3, "",
              <<One, One, Zero>>, <<Zero, Zero, Zero>>)}

SessionMeshes ==
    {create_box(One, Num(2), Half, <<One, Zero, Zero>>, <<Zero, Zero, Zero>>),
     create_cylinder(One, Num(2), 3, <<Half, Half, Half>>,
                     <<One, Zero, Zero>>, None)}

SessionMeshLists == UNION {[1..n -> SessionMeshes] : n \in 0..2}

SessionGlbInputs ==
    {[positions |-> m.positions, normals |-> m.normals, colors |-> m.colors,
      indices |-> m.indices, output_path |-> path] :
        m \in {Model(DarkRed, 1), Model(White, 2),
                Returned(<<>>, <<>>, <<>>, <<>>)},
        path \in {"medkit.glb", "map.glb"}}

\* between two calls
Resting ==
    {"session", "returned", "raised", "merge_returned", "merge_raised",
     "glb_returned", "glb_raised"}

InitSession ==
    /\ pc = "session"
    /\ call = NoCall
    /\ out = NoResult
    /\ MergeIdle
    /\ GlbIdle

SessionCallBuilder ==
    /\ pc \in Resting
    /\ call' \in SessionCalls
    /\ pc' = "call"
    /\ UNCHANGED <<out, mergeVars, glbVars>>

IndexOffsetAtEntry_Kept == index_offset

\* index_offset = 0
IndexOffsetAtEntry == 0

\* merge_meshes(meshes): fresh lists and a zero offset at every entry
SessionCallMerge ==
    /\ pc \in Resting
    /\ meshes' \in SessionMeshLists
    /\ k' = 0
    /\ all_positions' = <<>>
    /\ all_normals' = <<>>
    /\ all_colors' = <<>>
    /\ all_indices' = <<>>
    /\ index_offset' = IndexOffsetAtEntry
    /\ pc' = "merge_loop"
    /\ UNCHANGED <<call, out, merged, glbVars>>

SessionCallGlb ==
    /\ pc \in Resting
    /\ glb_args' \in SessionGlbInputs
    /\ pc' = "glb_call"
    /\ UNCHANGED <<call, out, mergeVars, storage, glb_result, runs>>

NextSession ==
    \/ SessionCallBuilder
    \/ SessionCallMerge
    \/ SessionCallGlb
    \/ NextBuild
    \/ NextMerge
    \/ NextGlb

SpecSession == InitSession /\ [][NextSession]_vars

(***************************************************************************)
(* Properties of a session (SpecSession).                                  *)
(***************************************************************************)
\* what each function yields as a function of its arguments alone
BuilderOf(c) ==
    CASE c.fn = "create_box" ->
            create_box(c.sizes[1], c.sizes[2], c.sizes[3], c.color, c.origin)
      [] c.fn = "create_cylinder" ->
            create_cylinder(c.sizes[1], c.sizes[2], c.segments, c.color,
                            c.origin, c.sizes[3])
      [] c.fn = "create_cone" ->
            create_cone(c.sizes[1], c.sizes[2], c.segments, c.color, c.origin)
      [] c.fn = "create_half_cylinder" ->
            create_half_cylinder(c.sizes[1], c.sizes[2], c.segments, c.color,
                                 c.origin, c.axis)
      [] OTHER ->
            create_torus(c.sizes[1], c.sizes[2], c.segments, c.rings, c.color,
                         c.origin)

MergedOf(ms) ==
    IF ms = <<>> THEN Raised("ValueError")
    ELSE Returned(
            Flatten([j \in 1..Len(ms) |-> ms[j].positions]),
            Flatten([j \in 1..Len(ms) |-> ms[j].normals]),
            Flatten([j \in 1..Len(ms) |-> ms[j].colors]),
            Flatten([j \in 1..Len(ms) |->
                [i \in 1..Len(ms[j].indices) |->
                    ms[j].indices[i] + VertsBefore(ms, j - 1)]]))

FileOf(a) ==
    LET packed == GlbPack(a.positions, a.normals, a.colors, a.indices)
    IN  GlbFile(packed.gltf, packed.binary_data)

\* C14: results depend only on the explicit arguments.  In a session of any
\* calls in any order, whatever the earlier calls left behind: a builder's
\* result, a merge's result, and the file and count of create_glb are each
\* the same function of the call's own arguments; no call changes its
\* arguments, and a call changes nothing but its own result (create_glb:
\* and the file at its own output path).
C14_ResultsDependOnlyOnArguments ==
    /\ [](/\ pc \in {"returned", "raised"} => out = BuilderOf(call)
          /\ pc \in {"merge_returned", "merge_raised"}
                => merged = MergedOf(meshes)
          /\ pc = "glb_returned"
                => /\ storage[glb_args.output_path] = FileOf(glb_args)
                   /\ glb_result =
                        [status |-> "ok", error |-> "",
                         tri_count |-> Len(glb_args.indices) \div 3])
    /\ [][/\ pc = "call"
                => /\ call' = call
                   /\ UNCHANGED <<mergeVars, glbVars>>
          /\ pc = "merge_loop"
                => /\ meshes' = meshes
                   /\ UNCHANGED <<call, out, glbVars>>
          /\ pc = "glb_call"
                => /\ glb_args' = glb_args
                   /\ \A p \in Paths \ {glb_args.output_path} :
                        storage'[p] = storage[p]
                   /\ UNCHANGED <<call, out, mergeVars, runs>>]_vars

\* a second merge of the same two-mesh list is about to return: the first
\* call's result is still there and the second call's indices agree with it,
\* after a builder call and a create_glb call in between
C14_Witness ==
    /\ pc = "merge_loop"
    /\ Len(meshes) = 2 /\ k = 2
    /\ merged = MergedOf(meshes)
    /\ Stack(all_indices) = merged.indices
    /\ out.status = "ok"
    /\ glb_result.status = "ok"

(***************************************************************************)
(* Two runs at once: generate_item_models.py and generate_medkit.py        *)
(* started side by side.  Both write <tools/..>/assets/meshes/items, and   *)
(* both write medkit.glb there; the steps of the two runs interleave.      *)
(***************************************************************************)
\* the mesh every create_* function of script r returns: the two scripts
\* build different medkits
ParallelModel(r) ==
    IF r = "generate_item_models" THEN Model(DarkRed, 1) ELSE Model(White, 2)

InitParallel ==
    /\ RunIdle
    /\ storage = [p \in Paths |-> NoFile]
    /\ runs = [r \in Scripts |->
                StartedRun(AssetsOf(r),
                           [j \in 1..Len(AssetsOf(r)) |-> ParallelModel(r)])]

SpecParallel == InitParallel /\ [][NextRuns]_vars

\* C15: generation runs may execute in parallel safely: once both runs have
\* finished without any error, every destination holds the whole file of
\* one writer, never a mixture of two writers' bytes.
C15_ParallelRunsSafe ==
    (\A r \in Scripts : runs[r].pc = "main_done") =>
        \A p \in Paths :
            \E r \in Scripts :
                LET m == ParallelModel(r)
                IN  storage[p] =
                        FileOf([positions |-> m.positions,
                                normals |-> m.normals, colors |-> m.colors,
                                indices |-> m.indices, output_path |-> p])

(***************************************************************************)
(* A script that builds one box and serializes it alone.  The builder's    *)
(* arrays are float32 (dtype=np.float32): each value is rounded to the     *)
(* nearest float32, ties to even.  The values here are rationals well      *)
(* inside the normal range.                                                *)
(***************************************************************************)
\* n/d scaled by 2^e into [1, 2): <<n, d, e>>
RECURSIVE ScaleToUnit(_, _, _)
ScaleToUnit(n, d, e) ==
    IF n < d THEN ScaleToUnit(2 * n, d, e - 1)
    ELSE IF n >= 2 * d THEN ScaleToUnit(n, 2 * d, e + 1)
    ELSE <<n, d, e>>

\* `bits` more binary digits of r/d (r < d): <<digits so far, remainder>>
RECURSIVE FractionBits(_, _, _, _)
FractionBits(r, d, bits, acc) ==
    IF bits = 0 THEN <<acc, r>>
    ELSE IF 2 * r >= d THEN FractionBits(2 * r - d, d, bits - 1, 2 * acc + 1)
    ELSE FractionBits(2 * r, d, bits - 1, 2 * acc)

\* the float32 nearest to the rational x
ToF32(x) ==
    IF x.a = 0 THEN F32(0, 0)
    ELSE
    LET u == ScaleToUnit(Abs(x.a), x.d, 0)
        fb == FractionBits(u[1] - u[2], u[2], 23, 0)
        up == IF 2 * fb[2] > u[2] \/ (2 * fb[2] = u[2] /\ fb[1] % 2 = 1)
              THEN 1 ELSE 0
        mant == fb[1] + up
    IN  F32(IF x.a < 0 THEN 1 ELSE 0, (u[3] + 127) * 8388608 + mant)

ToF32Array(arr) == [v \in 1..Len(arr) |-> [c \in 1..3 |-> ToF32(arr[v][c])]]

\* Box(0.28, 0.18, 0.10) of the example, a unit side, and offsets
FileLengths == {Rat(7, 25), Rat(9, 50), Rat(1, 10), One}
FileOrigins == {<<Zero, Zero, Zero>>, <<Rat(1, 2), Rat(-1, 4), Rat(1, 10)>>}
FileColors == {<<Rat(109, 200), Rat(59, 500), Rat(59, 500)>>}

BoxFileCalls ==
    {MakeCall("create_box", <<w, h, d>>, 0, 0, "", c, o) :
        w \in FileLengths, h \in FileLengths, d \in FileLengths,
        c \in FileColors, o \in FileOrigins}

InitBoxFile ==
    /\ pc = "call"
    /\ call \in BoxFileCalls
    /\ out = NoResult
    /\ MergeIdle
    /\ GlbIdle

\* create_glb(p, n, c, i, path) on what the builder returned
PassToGlb ==
    /\ pc = "returned"
    /\ glb_args' =
        [positions |-> ToF32Array(out.positions),
         normals |-> ToF32Array(out.normals),
         colors |-> ToF32Array(out.colors),
         indices |-> out.indices,
         output_path |-> "medkit.glb"]
    /\ pc' = "glb_call"
    /\ UNCHANGED <<call, out, mergeVars, storage, glb_result, runs>>

NextBoxFile == CallBox \/ PassToGlb \/ CreateGlb

SpecBoxFile == InitBoxFile /\ [][NextBoxFile]_vars

\* the eight corners o +/- (w/2, h/2, d/2) of the call's box, as float32
BoxCornerSet(c) ==
    LET corner(i, sgn) ==
            ToF32(IF sgn = 1
                  THEN Add(c.origin[i], Div(c.sizes[i], Num(2)))
                  ELSE Sub(c.origin[i], Div(c.sizes[i], Num(2))))
    IN  {<<corner(1, sx), corner(2, sy), corner(3, sz)>> :
            sx \in {-1, 1}, sy \in {-1, 1}, sz \in {-1, 1}}

\* C16: one box with positive w, h, d at origin o, serialized alone: the
\* position, normal and color accessors each count 24, the index accessor
\* counts 36 (12 triangles), the position accessor's min is
\* o - (w/2, h/2, d/2) and its max is o + (w/2, h/2, d/2) (as float32), and
\* every vertex stored in the file is one of the 8 corners.
C16_BoxFile ==
    pc = "glb_returned" =>
        LET f == Written
            acc == f.json.accessors
            half == [c \in 1..3 |-> Div(call.sizes[c], Num(2))]
        IN  /\ acc[1].count = 24 /\ acc[2].count = 24 /\ acc[3].count = 24
            /\ acc[4].count = 36
            /\ glb_result.tri_count = 12
            /\ acc[1].min = [c \in 1..3 |-> ToF32(Sub(call.origin[c], half[c]))]
            /\ acc[1].max = [c \in 1..3 |-> ToF32(Add(call.origin[c], half[c]))]
            /\ ReadAccessor(f, 0).readable
            /\ \A v \in 1..24 :
                ReadAccessor(f, 0).data[v] \in BoxCornerSet(call)
            /\ {ReadAccessor(f, 0).data[v] : v \in 1..24} = BoxCornerSet(call)

\* the example: Box(0.28, 0.18, 0.10) at the origin, written; its bounding
\* box is (-0.14, -0.09, -0.05) .. (0.14, 0.09, 0.05) in float32
C16_Witness ==
    /\ pc = "glb_returned"
    /\ call.sizes = <<Rat(7, 25), Rat(9, 50), Rat(1, 10)>>
    /\ call.origin = <<Zero, Zero, Zero>>
    /\ Written.json.accessors[1].min =
        <<F32(1, 1041194025), F32(1, 1035489772), F32(1, 1028443341)>>
    /\ Written.json.accessors[1].max =
        <<F32(0, 1041194025), F32(0, 1035489772), F32(0, 1028443341)>>

(***************************************************************************)
(* More properties of the builders (SpecBuild).                            *)
(***************************************************************************)
\* C17: the builders have no error outcome for in-contract inputs: called
\* with positive radius, height and segment (and ring) counts, each of
\* create_cylinder, create_cone, create_half_cylinder and create_torus
\* returns a primitive output and raises nothing.
C17_NoErrorForPositiveInputs ==
    (/\ pc \in {"returned", "raised"}
     /\ call.fn \in {"create_cylinder", "create_cone",
                     "create_half_cylinder", "create_torus"}
     /\ ValidCall(call))
    => /\ pc = "returned"
       /\ out.status = "ok"

(***************************************************************************)
(* The four compound item models of generate_item_models.py.  Each         *)
(* create_<item>() appends the outputs of its builder calls to a list and  *)
(* returns merge_meshes(list).  The parts are listed in call order with    *)
(* their builder and segment count; sizes, colors and origins do not bear  *)
(* on the counts, so the parts are built at unit size and their            *)
(* coordinates dropped: a part keeps its vertex count and its indices.     *)
(***************************************************************************)
BoxPart == [fn |-> "create_box", segments |-> 0]
CylinderPart(segments) == [fn |-> "create_cylinder", segments |-> segments]

FlashlightParts_Dense == Repeat(CylinderPart(24), 9) \o Repeat(BoxPart, 6)

\* body, mid, 3 grip rings, head, rim, lens, cap; button, clip, clip top,
\* 2 scratches, bevel
FlashlightParts == Repeat(CylinderPart(12), 9) \o Repeat(BoxPart, 6)

\* body, 4 corner cylinders, lid, cross (2), handle (2), 2 supports,
\* 2 latches with clasps, 4 corner protectors, 3 dirt marks, 2 side lines
MedkitParts ==
    <<BoxPart>> \o Repeat(CylinderPart(6), 4) \o Repeat(BoxPart, 20)

\* body, bottom, lid, lid top, 2 bands, 2 handle mounts, handle, 2 handle
\* caps, latch (2), 4 corner brackets, tray, 4 scratches, 2 edges,
\* 2 side latches
ToolboxParts ==
    Repeat(BoxPart, 8) \o Repeat(CylinderPart(8), 3) \o Repeat(BoxPart, 15)

\* base, 2 folds, 3 creases, 2 rolled edges, X mark (2), route (2), compass,
\* needle, 2 worn edges, text block
MapParts ==
    Repeat(BoxPart, 6) \o Repeat(CylinderPart(6), 2) \o Repeat(BoxPart, 4)
    \o <<CylinderPart(6)>> \o Repeat(BoxPart, 4)

PartsOf(fn) ==
    CASE fn = "create_flashlight" -> FlashlightParts
      [] fn = "create_medkit" -> MedkitParts
      [] fn = "create_toolbox" -> ToolboxParts
      [] OTHER -> MapParts

Unplaced == <<Zero, Zero, Zero>>

PartMesh(part) ==
    LET m == IF part.fn = "create_box"
             THEN create_box(One, One, One, Unplaced, Unplaced)
             ELSE create_cylinder(One, One, part.segments, Unplaced, Unplaced,
                                  None)
        blank == Repeat(Unplaced, Len(m.positions))
    IN  Returned(blank, blank, blank, m.indices)

CompoundCalls ==
    {MakeCall(fn, <<>>, 0, 0, "", <<>>, <<>>) :
        fn \in {"create_flashlight", "create_medkit", "create_toolbox",
                "create_map"}}

\* the asset main builds with create_<item>
AssetOf(fn) ==
    CASE fn = "create_flashlight" -> ItemModelAssets[1]
      [] fn = "create_medkit" -> ItemModelAssets[2]
      [] fn = "create_toolbox" -> ItemModelAssets[3]
      [] OTHER -> ItemModelAssets[4]

InitCompound ==
    /\ pc = "compound"
    /\ call \in CompoundCalls
    /\ out = NoResult
    /\ MergeIdle
    /\ GlbIdle

\* the next builder call of create_<item> and meshes.append of its output
AppendPart ==
    /\ pc = "compound"
    /\ Len(meshes) < Len(PartsOf(call.fn))
    /\ meshes' = Append(meshes, PartMesh(PartsOf(call.fn)[Len(meshes) + 1]))
    /\ UNCHANGED <<pc, call, out, k, all_positions, all_normals, all_colors,
                   all_indices, index_offset, merged, glbVars>>

\* return merge_meshes(meshes)
CallMerge ==
    /\ pc = "compound"
    /\ Len(meshes) = Len(PartsOf(call.fn))
    /\ pc' = "merge_loop"
    /\ UNCHANGED <<call, out, mergeVars, glbVars>>

NextCompound == AppendPart \/ CallMerge \/ MergeLoop \/ MergeReturn

SpecCompound == InitCompound /\ [][NextCompound]_vars

RECURSIVE TrianglesBefore(_, _)
TrianglesBefore(ms, j) ==
    IF j = 0 THEN 0 ELSE TrianglesBefore(ms, j - 1) + TriangleCount(ms[j])

\* C18: each of the four compound item models stays within the maximum
\* triangle count of its docstring (flashlight <= 800, medkit <= 900,
\* toolbox <= 1000, map <= 400), so main's label for it is OK; and its
\* triangle count is the sum of the triangle counts of the primitives
\* merged into it.
C18_ModelsWithinLimits ==
    pc = "merge_returned" =>
        LET tris == TriangleCount(merged)
            asset == AssetOf(call.fn)
        IN  /\ asset.limit =
                (CASE call.fn = "create_flashlight" -> 800
                   [] call.fn = "create_medkit" -> 900
                   [] call.fn = "create_toolbox" -> 1000
                   [] OTHER -> 400)
            /\ tris <= asset.limit
            /\ StatusLabel(tris, asset.limit) = "OK"
            /\ Len(merged.indices) = 3 * tris
            /\ tris = TrianglesBefore(meshes, Len(meshes))

\* the toolbox, merged: 26 parts, 23 boxes and 3 cylinders of 8 segments,
\* 372 triangles
C18_Witness ==
    /\ pc = "merge_returned"
    /\ call.fn = "create_toolbox"
    /\ Len(meshes) = 26
    /\ TriangleCount(merged) = 372
    /\ Len(merged.positions) = 654

\* the geometric normal of triangle t (not normalised)
FaceNormal(m, t) ==
    LET tri == Tri(m, t)
        pa == m.positions[tri[1] + 1]
    IN  Cross(VSub(m.positions[tri[2] + 1], pa),
              VSub(m.positions[tri[3] + 1], pa))

\* two vectors of one direction
SameDirection(u, v) ==
    /\ Cross(u, v) = <<Zero, Zero, Zero>>
    /\ IsPos(Dot(u, v))

SharesVertex(m, s, t) == \E a, b \in 1..3 : Tri(m, s)[a] = Tri(m, t)[b]

\* C19: in every primitive output no vertex is shared between two faces
\* with different normals: any two triangles that reference a common vertex
\* index have equal geometric face normals (triangles of zero area, which
\* have no normal, aside).
C19_NoVertexSharedAcrossFaces ==
    (pc = "returned" /\ ProperCall(call)) =>
        \A s, t \in 1..TriangleCount(out) :
            (/\ SharesVertex(out, s, t)
             /\ FaceNormal(out, s) # <<Zero, Zero, Zero>>
             /\ FaceNormal(out, t) # <<Zero, Zero, Zero>>)
            => SameDirection(FaceNormal(out, s), FaceNormal(out, t))

\* the vertex indices triangles t1..t2 of m reference
Referenced(m, t1, t2) == {Tri(m, t)[c] : t \in t1..t2, c \in 1..3}

\* C20: a cylinder of N segments uses disjoint vertex ranges for its side
\* and its caps.  The 2N side triangles reference only vertices 0..2N-1,
\* whose normals are radial with zero vertical component; the N top-cap
\* triangles reference only the top center 2N and its own ring 2N+1..3N,
\* all with normal (0,1,0); the N bottom-cap triangles reference only the
\* bottom center 3N+1 and its own ring 3N+2..4N+1, all with normal
\* (0,-1,0); and each cap ring vertex has the position of the side ring
\* vertex at the same angle.
C20_CylinderVertexRanges ==
    (pc = "returned" /\ call.fn = "create_cylinder" /\ ValidCall(call)) =>
        LET N == call.segments
            pos(v) == out.positions[v + 1]
            nrm(v) == out.normals[v + 1]
        IN  /\ TriangleCount(out) = 4 * N
            /\ Referenced(out, 1, 2 * N) \subseteq 0..(2 * N - 1)
            /\ \A v \in 0..(2 * N - 1) :
                /\ nrm(v)[2] = Zero
                /\ nrm(v) # <<Zero, Zero, Zero>>
                \* along the horizontal offset of the vertex from the axis
                /\ Sub(Mul(nrm(v)[1], Sub(pos(v)[3], call.origin[3])),
                       Mul(nrm(v)[3], Sub(pos(v)[1], call.origin[1]))) = Zero
                /\ IsPos(Add(Mul(nrm(v)[1], Sub(pos(v)[1], call.origin[1])),
                             Mul(nrm(v)[3], Sub(pos(v)[3], call.origin[3]))))
            /\ Referenced(out, 2 * N + 1, 3 * N) \subseteq (2 * N)..(3 * N)
            /\ \A t \in (2 * N + 1)..(3 * N) : Tri(out, t)[1] = 2 * N
            /\ \A v \in (2 * N)..(3 * N) : nrm(v) = UpY
            /\ Referenced(out, 3 * N + 1, 4 * N)
                    \subseteq (3 * N + 1)..(4 * N + 1)
            /\ \A t \in (3 * N + 1)..(4 * N) : Tri(out, t)[1] = 3 * N + 1
            /\ \A v \in (3 * N + 1)..(4 * N + 1) : nrm(v) = DownY
            /\ \A i \in 0..(N - 1) :
                /\ pos(2 * N + 1 + i) = pos(2 * i + 1)
                /\ pos(3 * N + 2 + i) = pos(2 * i)

\* a frustum of 6 segments away from the origin: 26 vertices, 24 triangles
C20_Witness ==
    /\ pc = "returned"
    /\ call.fn = "create_cylinder"
    /\ call.segments = 6
    /\ call.sizes[3] # None /\ call.sizes[3] # call.sizes[1]
    /\ call.origin # <<Zero, Zero, Zero>>
    /\ Len(out.positions) = 26
    /\ Referenced(out, 13, 18) = 12..18
    /\ Referenced(out, 19, 24) = 19..25

\* C21: create_half_cylinder places its ring samples as the cylinder ring
\* construction does, over half a turn: every bottom and top vertex lies at
\* distance radius from the vertical axis through the origin and carries
\* the radial outward normal (its horizontal offset from the axis divided
\* by radius, zero vertical component).
C21_HalfCylinderOnRing ==
    (pc = "returned" /\ call.fn = "create_half_cylinder" /\ ValidCall(call))
    =>  LET radius == call.sizes[1]
        IN  \A v \in 1..Len(out.positions) :
                LET dx == Sub(out.positions[v][1], call.origin[1])
                    dz == Sub(out.positions[v][3], call.origin[3])
                IN  /\ Add(Mul(dx, dx), Mul(dz, dz)) = Mul(radius, radius)
                    /\ out.normals[v] =
                        Vec(Div(dx, radius), Zero, Div(dz, radius))

\* C22: create_half_cylinder with segments = N >= 2 is an open surface
\* without caps: N//2 + 1 ring samples of one bottom and one top vertex
\* (2*(N//2 + 1) vertices), N//2 quads of two triangles (6*(N//2) indices),
\* each quad joining sample i to sample i + 1 only; nothing joins the last
\* sample to the first, and every vertex is a ring sample (bottom vertices
\* at the origin's height, top vertices `height` above, pairwise above one
\* another).
C22_HalfCylinderOpen ==
    (pc \in {"returned", "raised"} /\ call.fn = "create_half_cylinder"
     /\ ValidCall(call) /\ call.segments >= 2)
    =>  LET H == call.segments \div 2
        IN  /\ pc = "returned"
            /\ Len(out.positions) = 2 * (H + 1)
            /\ Len(out.normals) = 2 * (H + 1)
            /\ Len(out.colors) = 2 * (H + 1)
            /\ Len(out.indices) = 6 * H
            /\ \A q \in 1..H :
                /\ Referenced(out, 2 * q - 1, 2 * q)
                        = (2 * (q - 1))..(2 * (q - 1) + 3)
            /\ \A t \in 1..TriangleCount(out) :
                ~({0, 1} \cap Referenced(out, t, t) # {}
                  /\ {2 * H, 2 * H + 1} \cap Referenced(out, t, t) # {}
                  /\ H > 1)
            /\ \A i \in 0..H :
                LET bot == out.positions[2 * i + 1]
                    top == out.positions[2 * i + 2]
                IN  /\ bot[2] = call.origin[2]
                    /\ top[2] = Add(call.origin[2], call.sizes[2])
                    /\ top[1] = bot[1] /\ top[3] = bot[3]

\* a half-cylinder of 6 segments: 4 samples, 8 vertices, 3 quads
C22_Witness ==
    /\ pc = "returned"
    /\ call.fn = "create_half_cylinder"
    /\ call.segments = 6
    /\ Len(out.positions) = 8
    /\ Len(out.indices) = 18
    /\ Referenced(out, 5, 6) = 4..7

\* the c-th directed edge of triangle t: from corner c to the next corner
Edge(m, t, c) == <<Tri(m, t)[c], Tri(m, t)[(c % 3) + 1]>>

\* how many triangle sides of m run from a to b
Sides(m, a, b) ==
    Cardinality({tc \in (1..TriangleCount(m)) \X (1..3) :
                    Edge(m, tc[1], tc[2]) = <<a, b>>})

\* C23: create_torus with rings = R and segments = S returns R*S vertices
\* and R*S quad cells of two triangles (6*R*S indices); for R >= 3 and
\* S >= 3 the grid wraps in both directions: every edge is a side of
\* exactly two triangles, which traverse it in opposite directions, so the
\* surface has no boundary.
C23_TorusClosed ==
    (pc = "returned" /\ call.fn = "create_torus" /\ ValidCall(call)) =>
        LET R == call.rings
            S == call.segments
        IN  /\ Len(out.positions) = R * S
            /\ Len(out.normals) = R * S
            /\ Len(out.colors) = R * S
            /\ Len(out.indices) = 6 * R * S
            /\ \A i \in 1..Len(out.indices) :
                out.indices[i] \in 0..(R * S - 1)
            /\ (R >= 3 /\ S >= 3) =>
                \A t \in 1..TriangleCount(out), c \in 1..3 :
                    LET e == Edge(out, t, c)
                    IN  /\ e[1] # e[2]
                        /\ Sides(out, e[1], e[2]) = 1
                        /\ Sides(out, e[2], e[1]) = 1

\* a torus of 4 rings and 3 segments: 12 vertices, 24 triangles, and the
\* last cell wraps to vertex 0
C23_Witness ==
    /\ pc = "returned"
    /\ call.fn = "create_torus"
    /\ call.rings = 4 /\ call.segments = 3
    /\ Len(out.positions) = 12
    /\ Len(out.indices) = 72
    /\ Tri(out, 24) = <<2, 0, 9>>

\* the set of vertices of triangle t
Corners(m, t) == {Tri(m, t)[c] : c \in 1..3}

\* C24: create_cone with segments = N returns 2N+2 vertices and 6N indices;
\* the first N triangles are a fan of the apex (index 0) over adjacent
\* vertices of the side ring 1..N with wrap-around, the last N triangles
\* are a fan of the cap center (index N+1) over adjacent vertices of the
\* cap ring N+2..2N+1, every cap vertex has normal (0,-1,0), and no vertex
\* is used by both the side and the cap.
C24_ConeFans ==
    (pc = "returned" /\ call.fn = "create_cone" /\ ValidCall(call)) =>
        LET N == call.segments
        IN  /\ Len(out.positions) = 2 * N + 2
            /\ Len(out.normals) = 2 * N + 2
            /\ Len(out.colors) = 2 * N + 2
            /\ Len(out.indices) = 6 * N
            /\ out.positions[1] = Vec(call.origin[1],
                                      Add(call.origin[2], call.sizes[2]),
                                      call.origin[3])
            /\ \A t \in 1..N : 0 \in Corners(out, t)
            /\ {Corners(out, t) : t \in 1..N}
                = {{0, 1 + i, 1 + ((i + 1) % N)} : i \in 0..(N - 1)}
            /\ \A t \in (N + 1)..(2 * N) : (N + 1) \in Corners(out, t)
            /\ {Corners(out, t) : t \in (N + 1)..(2 * N)}
                = {{N + 1, N + 2 + i, N + 2 + ((i + 1) % N)} :
                        i \in 0..(N - 1)}
            /\ out.positions[N + 2] = Vec(call.origin[1], call.origin[2],
                                          call.origin[3])
            /\ \A v \in (N + 1)..(2 * N + 1) : out.normals[v + 1] = DownY
            /\ Referenced(out, 1, N) \subseteq 0..N
            /\ Referenced(out, N + 1, 2 * N) \subseteq (N + 1)..(2 * N + 1)
            /\ Referenced(out, 1, N) \cap Referenced(out, N + 1, 2 * N) = {}

\* a cone of 4 segments: the last side triangle wraps to ring vertex 1 and
\* the last cap triangle to cap ring vertex 6
C24_Witness ==
    /\ pc = "returned"
    /\ call.fn = "create_cone"
    /\ call.segments = 4
    /\ Len(out.positions) = 10
    /\ Tri(out, 4) = <<0, 4, 1>>
    /\ Tri(out, 8) = <<5, 6, 9>>

\* the least multiple of 4 that is at least n
PaddedLen(n) == ((n + 3) \div 4) * 4

\* data followed by zero bytes up to the next multiple of 4
ZeroPadded(data) ==
    [b \in 1..PaddedLen(Len(data)) |-> IF b <= Len(data) THEN data[b] ELSE 0]

\* C25: the blob written by create_glb is the concatenation, in the order
\* positions, normals, colors, indices, of the four byte ranges each
\* zero-padded to the next multiple of 4; view number w records as offset the
\* total padded length of the ranges before it (a multiple of 4) and as
\* length the unpadded length of its own range; the views do not overlap,
\* each lies inside the blob, and the declared buffer length is the sum of
\* the four padded lengths.
C25_BlobLayout ==
    pc = "glb_returned" =>
        LET raw == <<Vec3ArrayBytes(glb_args.positions),
                     Vec3ArrayBytes(glb_args.normals),
                     Vec3ArrayBytes(glb_args.colors),
                     IndexArrayBytes(glb_args.indices)>>
            padded(w) == PaddedLen(Len(raw[w]))
            views == Written.json.bufferViews
        IN  /\ Written.exists
            /\ Written.bin = ZeroPadded(raw[1]) \o ZeroPadded(raw[2])
                                \o ZeroPadded(raw[3]) \o ZeroPadded(raw[4])
            /\ Len(views) = 4
            /\ views[1].byteOffset = 0
            /\ views[2].byteOffset = padded(1)
            /\ views[3].byteOffset = padded(1) + padded(2)
            /\ views[4].byteOffset = padded(1) + padded(2) + padded(3)
            /\ \A w \in 1..4 :
                /\ views[w].buffer = 0
                /\ views[w].byteOffset % 4 = 0
                /\ views[w].byteLength = Len(raw[w])
                /\ views[w].byteOffset + views[w].byteLength
                    <= Len(Written.bin)
            /\ \A w \in 1..3 :
                views[w].byteOffset + views[w].byteLength
                    <= views[w + 1].byteOffset
            /\ Len(Written.json.buffers) = 1
            /\ Written.json.buffers[1].byteLength
                = padded(1) + padded(2) + padded(3) + padded(4)
            /\ Written.json.buffers[1].byteLength = Len(Written.bin)

\* two vertices and one triangle: three ranges of 24 bytes and one of 12
C25_Witness ==
    /\ pc = "glb_returned"
    /\ Len(glb_args.positions) = 2
    /\ Len(glb_args.indices) = 3
    /\ Len(Written.bin) = 84
    /\ [w \in 1..4 |-> Written.json.bufferViews[w].byteOffset]
        = <<0, 24, 48, 72>>

\* bytes of one element of an accessor: 4-byte components
ElementSize(acc) == 4 * ComponentsOf(acc.type)

\* C26: create_glb emits one accessor per array, accessor number a
\* referring to buffer view number a; positions, normals and colors are
\* VEC3 of 32-bit floats counted by the vertex count, indices are SCALAR of
\* 32-bit unsigned integers counted by the index count; count times element
\* size (12 or 4 bytes) is the byte length of the accessor's view, and the
\* three vertex accessors have equal counts.
C26_Accessors ==
    pc = "glb_returned" =>
        LET accs == Written.json.accessors
            views == Written.json.bufferViews
        IN  /\ Len(accs) = 4
            /\ Len(views) = 4
            /\ \A a \in 1..4 :
                /\ accs[a].bufferView = a - 1
                /\ accs[a].count * ElementSize(accs[a])
                    = views[a].byteLength
            /\ \A a \in 1..3 :
                /\ accs[a].type = "VEC3"
                /\ accs[a].componentType = "FLOAT"
                /\ accs[a].count = Len(glb_args.positions)
                /\ ElementSize(accs[a]) = 12
            /\ accs[4].type = "SCALAR"
            /\ accs[4].componentType = "UNSIGNED_INT"
            /\ accs[4].count = Len(glb_args.indices)
            /\ ElementSize(accs[4]) = 4

\* two vertices and one triangle with an index wider than 16 bits
C26_Witness ==
    /\ pc = "glb_returned"
    /\ Len(glb_args.positions) = 2
    /\ glb_args.indices = <<66051, 0, 16909060>>
    /\ Written.json.accessors[1].count = 2
    /\ Written.json.accessors[4].count = 3
    /\ Written.json.bufferViews[4].byteLength = 12

\* C27: the metadata written by create_glb holds one mesh with one
\* primitive that names the position, normal and color accessors under
\* POSITION, NORMAL and COLOR_0 and the index accessor as its indices, drawn
\* as a triangle list; one node referencing that mesh; one scene
\* referencing that node, declared the default scene; every buffer view,
\* accessor, mesh, node and scene index points to an element that exists.
C27_SceneGraph ==
    pc = "glb_returned" =>
        LET g == Written.json
            accs == g.accessors
            prim == g.meshes[1].primitives[1]
            refs == {prim.attributes.POSITION, prim.attributes.NORMAL,
                     prim.attributes.COLOR_0, prim.indices}
        IN  /\ Len(g.meshes) = 1
            /\ Len(g.meshes[1].primitives) = 1
            /\ prim.mode = "TRIANGLES"
            /\ Cardinality(refs) = 4
            /\ refs \subseteq 0..(Len(accs) - 1)
            /\ ReadAccessor(Written, prim.attributes.POSITION).data
                = glb_args.positions
            /\ ReadAccessor(Written, prim.attributes.NORMAL).data
                = glb_args.normals
            /\ ReadAccessor(Written, prim.attributes.COLOR_0).data
                = glb_args.colors
            /\ accs[prim.indices + 1].type = "SCALAR"
            /\ accs[prim.indices + 1].count = Len(glb_args.indices)
            /\ Len(g.nodes) = 1
            /\ g.nodes[1].mesh = 0
            /\ Len(g.scenes) = 1
            /\ g.scenes[1].nodes = <<0>>
            /\ g.scene = 0
            /\ \A a \in 1..Len(accs) :
                accs[a].bufferView \in 0..(Len(g.bufferViews) - 1)
            /\ \A v \in 1..Len(g.bufferViews) :
                g.bufferViews[v].buffer \in 0..(Len(g.buffers) - 1)

\* a written file whose normals differ from its positions and colors, so
\* the three roles are told apart
C27_Witness ==
    /\ pc = "glb_returned"
    /\ Len(glb_args.positions) = 2
    /\ Len(glb_args.indices) = 3
    /\ Written.exists
    /\ WrittenPrimitive.attributes.NORMAL = 1
    /\ ReadAccessor(Written, 1).data = glb_args.normals
    /\ ReadAccessor(Written, 1).data # ReadAccessor(Written, 0).data
    /\ ReadAccessor(Written, 1).data # ReadAccessor(Written, 2).data

(***************************************************************************)
(* merge_meshes applied to its own results.  A caller merges a sub-list of *)
(* its parts, keeps the returned mesh (out), and merges it with the rest;  *)
(* every call of merge_meshes starts with fresh locals.                    *)
(***************************************************************************)
NestShapes == {"left", "right", "single", "flat"}

NestedPlans ==
    {[fn |-> "nested", parts |-> ps, shape |-> sh] :
        ps \in [1..3 -> SampleMeshes], sh \in NestShapes}

\* the list of the first call of a plan
InnerList(plan) ==
    CASE plan.shape = "left" -> <<plan.parts[1], plan.parts[2]>>
      [] plan.shape = "right" -> <<plan.parts[2], plan.parts[3]>>
      [] plan.shape = "single" -> <<plan.parts[1]>>
      [] OTHER -> plan.parts

\* the list of the second call, with the first call's result in it
OuterList(plan, inner) ==
    IF plan.shape = "left" THEN <<inner, plan.parts[3]>>
    ELSE <<plan.parts[1], inner>>

InitNested ==
    /\ pc = "nest"
    /\ call \in NestedPlans
    /\ out = NoResult
    /\ MergeIdle
    /\ GlbIdle

\* merge_meshes(inner list): entry of the first call
NestInner ==
    /\ pc = "nest"
    /\ meshes' = InnerList(call)
    /\ pc' = "merge_loop"
    /\ UNCHANGED <<call, out, k, all_positions, all_normals, all_colors,
                   all_indices, index_offset, merged, glbVars>>

\* merge_meshes([first result, rest]): entry of the second call
NestOuter ==
    /\ pc = "merge_returned"
    /\ call.shape \in {"left", "right"}
    /\ out = NoResult
    /\ out' = merged
    /\ meshes' = OuterList(call, merged)
    /\ k' = 0
    /\ all_positions' = <<>>
    /\ all_normals' = <<>>
    /\ all_colors' = <<>>
    /\ all_indices' = <<>>
    /\ index_offset' = 0
    /\ merged' = NoResult
    /\ pc' = "merge_loop"
    /\ UNCHANGED <<call, glbVars>>

NextNested == NestInner \/ MergeLoop \/ MergeReturn \/ NestOuter

SpecNested == InitNested /\ [][NextNested]_vars

\* the last call of the plan has returned
NestDone ==
    /\ pc = "merge_returned"
    /\ call.shape \in {"left", "right"} => out # NoResult

\* C28: merge_meshes is associative over nesting: merging [merge([A, B]), C]
\* and merging [A, merge([B, C])] both return what merging [A, B, C]
\* returns, and merging [A] returns A.
C28_MergeAssociative ==
    NestDone =>
        /\ call.shape \in {"left", "right", "flat"} =>
            merged = MergedOf(call.parts)
        /\ call.shape = "left" =>
            out = MergedOf(<<call.parts[1], call.parts[2]>>)
        /\ call.shape = "right" =>
            out = MergedOf(<<call.parts[2], call.parts[3]>>)
        /\ call.shape = "single" => merged = call.parts[1]

\* a right-nested merge of three different parts has returned: the inner
\* result's indices were raised again by the vertices of the first part
C28_Witness ==
    /\ NestDone
    /\ call.shape = "right"
    /\ Cardinality({call.parts[j] : j \in 1..3}) = 3
    /\ Len(out.indices) > 0
    /\ Len(merged.positions) = VertsBefore(call.parts, 3)
    /\ merged.indices[Len(merged.indices)]
        = out.indices[Len(out.indices)] + Len(call.parts[1].positions)

(***************************************************************************)
(* The second copy of the core (generate_medkit.py), translated on its own *)
(* from its own text: create_box, create_cylinder, merge_meshes and        *)
(* create_glb.  Only arithmetic, numpy's tobytes/min/max and pygltflib's   *)
(* constructors are common to the two translations.                        *)
(***************************************************************************)
medkit_create_box(w, h, d, color, origin) ==
    LET ox == origin[1]
        oy == origin[2]
        oz == origin[3]
        hw == Div(w, Num(2))
        hh == Div(h, Num(2))
        hd == Div(d, Num(2))
        xm == Sub(ox, hw)
        xp == Add(ox, hw)
        ym == Sub(oy, hh)
        yp == Add(oy, hh)
        zm == Sub(oz, hd)
        zp == Add(oz, hd)
        z0 == Zero
        p1 == One
        m1 == Num(-1)
    IN  Returned(
          << <<xm, ym, zp>>, <<xp, ym, zp>>, <<xp, yp, zp>>, <<xm, yp, zp>>,
             <<xp, ym, zm>>, <<xm, ym, zm>>, <<xm, yp, zm>>, <<xp, yp, zm>>,
             <<xm, yp, zp>>, <<xp, yp, zp>>, <<xp, yp, zm>>, <<xm, yp, zm>>,
             <<xm, ym, zm>>, <<xp, ym, zm>>, <<xp, ym, zp>>, <<xm, ym, zp>>,
             <<xp, ym, zp>>, <<xp, ym, zm>>, <<xp, yp, zm>>, <<xp, yp, zp>>,
             <<xm, ym, zm>>, <<xm, ym, zp>>, <<xm, yp, zp>>, <<xm, yp, zm>> >>,
          << <<z0, z0, p1>>, <<z0, z0, p1>>, <<z0, z0, p1>>, <<z0, z0, p1>>,
             <<z0, z0, m1>>, <<z0, z0, m1>>, <<z0, z0, m1>>, <<z0, z0, m1>>,
             <<z0, p1, z0>>, <<z0, p1, z0>>, <<z0, p1, z0>>, <<z0, p1, z0>>,
             <<z0, m1, z0>>, <<z0, m1, z0>>, <<z0, m1, z0>>, <<z0, m1, z0>>,
             <<p1, z0, z0>>, <<p1, z0, z0>>, <<p1, z0, z0>>, <<p1, z0, z0>>,
             <<m1, z0, z0>>, <<m1, z0, z0>>, <<m1, z0, z0>>, <<m1, z0, z0>> >>,
          [v \in 1..24 |-> color],
          <<0, 1, 2, 0, 2, 3,
            4, 5, 6, 4, 6, 7,
            8, 9, 10, 8, 10, 11,
            12, 13, 14, 12, 14, 15,
            16, 17, 18, 16, 18, 19,
            20, 21, 22, 20, 22, 23>>)

\* the lists after the loops over range(segments), one loop after another
medkit_create_cylinder(radius, height, segments, color, origin, top_radius_arg) ==
    LET top_radius == IF top_radius_arg = None THEN radius ELSE top_radius_arg
        ox == origin[1]
        oy == origin[2]
        oz == origin[3]
        cos_a(i) == Cos((12 * i) \div segments)
        sin_a(i) == Sin((12 * i) \div segments)
        steps == [j \in 1..segments |-> j - 1]
        side_p == Flatten([j \in 1..segments |->
            << <<Add(ox, Mul(radius, cos_a(steps[j]))), oy,
                 Add(oz, Mul(radius, sin_a(steps[j])))>>,
               <<Add(ox, Mul(top_radius, cos_a(steps[j]))), Add(oy, height),
                 Add(oz, Mul(top_radius, sin_a(steps[j])))>> >>])
        side_n == Flatten([j \in 1..segments |->
            << <<cos_a(steps[j]), Zero, sin_a(steps[j])>>,
               <<cos_a(steps[j]), Zero, sin_a(steps[j])>> >>])
        side_i == Flatten([j \in 1..segments |->
            LET i0 == steps[j] * 2
                i1 == steps[j] * 2 + 1
                i2 == ((steps[j] + 1) % segments) * 2
                i3 == ((steps[j] + 1) % segments) * 2 + 1
            IN  <<i0, i2, i1, i1, i2, i3>>])
        top_center_idx == Len(side_p)
        top_p == << <<ox, Add(oy, height), oz>> >> \o
            [j \in 1..segments |->
                <<Add(ox, Mul(top_radius, cos_a(steps[j]))), Add(oy, height),
                  Add(oz, Mul(top_radius, sin_a(steps[j])))>>]
        top_n == [v \in 1..(segments + 1) |-> <<Zero, One, Zero>>]
        top_i == Flatten([j \in 1..segments |->
            <<top_center_idx, top_center_idx + 1 + steps[j],
              top_center_idx + 1 + ((steps[j] + 1) % segments)>>])
        bot_center_idx == Len(side_p) + Len(top_p)
        bot_p == << <<ox, oy, oz>> >> \o
            [j \in 1..segments |->
                <<Add(ox, Mul(radius, cos_a(steps[j]))), oy,
                  Add(oz, Mul(radius, sin_a(steps[j])))>>]
        bot_n == [v \in 1..(segments + 1) |-> <<Zero, Num(-1), Zero>>]
        bot_i == Flatten([j \in 1..segments |->
            <<bot_center_idx,
              bot_center_idx + 1 + ((steps[j] + 1) % segments),
              bot_center_idx + 1 + steps[j]>>])
        positions == side_p \o top_p \o bot_p
    IN  Returned(positions, side_n \o top_n \o bot_n,
                 [v \in 1..Len(positions) |-> color],
                 side_i \o top_i \o bot_i)

\* the lists and the offset after the first j passes of the loop
RECURSIVE medkit_merge_loop(_, _)
medkit_merge_loop(ms, j) ==
    IF j = 0
    THEN [all_positions |-> <<>>, all_normals |-> <<>>, all_colors |-> <<>>,
          all_indices |-> <<>>, index_offset |-> 0]
    ELSE LET before == medkit_merge_loop(ms, j - 1)
             mesh == ms[j]
         IN  [all_positions |-> Append(before.all_positions, mesh.positions),
              all_normals |-> Append(before.all_normals, mesh.normals),
              all_colors |-> Append(before.all_colors, mesh.colors),
              all_indices |->
                Append(before.all_indices,
                       [i \in 1..Len(mesh.indices) |->
                            mesh.indices[i] + before.index_offset]),
              index_offset |-> before.index_offset + Len(mesh.positions)]

\* np.vstack / np.hstack of an empty list raise ValueError
medkit_merge_meshes(ms) ==
    LET done == medkit_merge_loop(ms, Len(ms))
    IN  IF Len(done.all_positions) = 0 THEN Raised("ValueError")
        ELSE Returned(Flatten(done.all_positions), Flatten(done.all_normals),
                      Flatten(done.all_colors), Flatten(done.all_indices))

\* the result of create_glb and the file it leaves at output_path, given
\* the file that was there
medkit_create_glb(positions, normals, colors, indices, old_file) ==
    LET pos_bytes == Vec3ArrayBytes(positions)
        norm_bytes == Vec3ArrayBytes(normals)
        color_bytes == Vec3ArrayBytes(colors)
        index_bytes == IndexArrayBytes(indices)
        padding(data) == (4 - (Len(data) % 4)) % 4
        pad(data) == data \o [b \in 1..padding(data) |-> 0]
        pos_padded == pad(pos_bytes)
        norm_padded == pad(norm_bytes)
        color_padded == pad(color_bytes)
        index_padded == pad(index_bytes)
        binary_data == pos_padded \o norm_padded \o color_padded
                        \o index_padded
        pos_view == BufferView(0, Len(pos_bytes), "ARRAY_BUFFER")
        norm_view == BufferView(Len(pos_padded), Len(norm_bytes),
                                "ARRAY_BUFFER")
        color_view == BufferView(Len(pos_padded) + Len(norm_padded),
                                 Len(color_bytes), "ARRAY_BUFFER")
        index_view == BufferView(Len(pos_padded) + Len(norm_padded)
                                    + Len(color_padded),
                                 Len(index_bytes), "ELEMENT_ARRAY_BUFFER")
        gltf ==
            [buffers |-> <<[byteLength |-> Len(binary_data)]>>,
             bufferViews |-> <<pos_view, norm_view, color_view, index_view>>,
             accessors |->
                <<Accessor(0, "FLOAT", Len(positions), "VEC3",
                           PositionMin(positions), PositionMax(positions)),
                  Accessor(1, "FLOAT", Len(normals), "VEC3", <<>>, <<>>),
                  Accessor(2, "FLOAT", Len(colors), "VEC3", <<>>, <<>>),
                  Accessor(3, "UNSIGNED_INT", Len(indices), "SCALAR",
                           <<>>, <<>>)>>,
             meshes |-> <<[primitives |->
                <<[attributes |-> [POSITION |-> 0, NORMAL |-> 1,
                                   COLOR_0 |-> 2],
                   indices |-> 3, mode |-> "TRIANGLES"]>>]>>,
             nodes |-> <<[mesh |-> 0]>>,
             scenes |-> <<[nodes |-> <<0>>]>>,
             scene |-> 0]
    IN  IF Len(positions) = 0
        THEN [result |-> [status |-> "raise", error |-> "ValueError",
                          tri_count |-> 0],
              file |-> old_file]
        ELSE [result |-> [status |-> "ok", error |-> "",
                          tri_count |-> Len(indices) \div 3],
              file |-> [exists |-> TRUE, json |-> gltf, bin |-> binary_data]]

(***************************************************************************)
(* One call of create_box, create_cylinder, merge_meshes or create_glb of  *)
(* generate_item_models.py on any input.                                   *)
(***************************************************************************)
InitCopies ==
    \/ /\ pc = "call"
       /\ call \in BoxCalls \cup CylinderCalls
       /\ out = NoResult
       /\ MergeIdle
       /\ GlbIdle
    \/ InitMerge
    \/ InitGlb

NextCopies == CallBox \/ CallCylinder \/ MergeLoop \/ MergeReturn \/ CreateGlb

SpecCopies == InitCopies /\ [][NextCopies]_vars

\* C29: the two copies of the core agree: on every input, create_box,
\* create_cylinder, merge_meshes and create_glb of generate_medkit.py
\* return the same arrays (or raise the same error), write the same blob
\* and metadata, and return the same triangle count as the functions of
\* the same name in generate_item_models.py.
C29_CopiesAgree ==
    /\ (pc \in {"returned", "raised"} /\ call.fn = "create_box") =>
        out = medkit_create_box(call.sizes[1], call.sizes[2], call.sizes[3],
                                call.color, call.origin)
    /\ (pc \in {"returned", "raised"} /\ call.fn = "create_cylinder") =>
        out = medkit_create_cylinder(call.sizes[1], call.sizes[2],
                                     call.segments, call.color, call.origin,
                                     call.sizes[3])
    /\ pc \in {"merge_returned", "merge_raised"} =>
        merged = medkit_merge_meshes(meshes)
    /\ pc \in {"glb_returned", "glb_raised"} =>
        LET other == medkit_create_glb(glb_args.positions, glb_args.normals,
                                       glb_args.colors, glb_args.indices,
                                       NoFile)
        IN  /\ glb_result = other.result
            /\ Written = other.file

\* create_glb of the first copy has written a file of two vertices and one
\* triangle and returned the count 1
C29_Witness ==
    /\ pc = "glb_returned"
    /\ Len(glb_args.positions) = 2
    /\ glb_result.tri_count = 1
    /\ Written.exists
    /\ Len(Written.bin) = 84

\* C30: create_glb called with a mesh of zero vertices fails while
\* computing the position bounds, before anything is handed to the file
\* writer: the call raises an error, and the file at the destination path
\* (like every other file) is what it was before the call, absent or not.
C30_EmptyMeshWritesNothing ==
    [][(pc = "glb_call" /\ Len(glb_args.positions) = 0) =>
            /\ pc' = "glb_raised"
            /\ glb_result'.status = "raise"
            /\ glb_result'.error = "ValueError"
            /\ storage' = storage]_vars

\* create_glb has raised on an empty mesh whose destination held a file
\* written by an earlier call, and that file is still there
C30_Witness ==
    /\ pc = "glb_raised"
    /\ Len(glb_args.positions) = 0
    /\ glb_result.status = "raise"
    /\ storage[glb_args.output_path].exists
    /\ Len(storage[glb_args.output_path].bin) > 0
    /\ \E p \in Paths : ~storage[p].exists
====
